---------------------------- MODULE Spec2Model ----------------------------
(***************************************************************************)
(* A model of copy_deck_images_general.py: the name normaliser, the        *)
(* catalog indexer, the pitch-aware card matcher, the back-art resolver    *)
(* with its cache, the folder-claim ledger and the copy orchestrator.      *)
(*                                                                         *)
(* Text is modelled character by character: a string is a sequence of      *)
(* one-character strings, so that the regular expressions of the source    *)
(* are computed, not assumed.  The alphabet is the ASCII subset Ascii.     *)
(***************************************************************************)
EXTENDS Integers, Sequences, FiniteSets, TLC

(***************************************************************************)
(* Characters                                                              *)
(***************************************************************************)

\* The characters of the model, in ASCII order (the order str.lower() keys
\* and Python's string comparison use).
Ascii ==
  << " ", "\"", "'", "(", ")", "*", "-", ".", "/",
     "0", "1", "2", "3", "4", "5", "6", "7", "8", "9",
     ":", "<", ">", "?",
     "A", "B", "C", "D", "E", "F", "G", "H", "I", "J", "K", "L", "M",
     "N", "O", "P", "Q", "R", "S", "T", "U", "V", "W", "X", "Y", "Z",
     "\\", "_",
     "a", "b", "c", "d", "e", "f", "g", "h", "i", "j", "k", "l", "m",
     "n", "o", "p", "q", "r", "s", "t", "u", "v", "w", "x", "y", "z",
     "|" >>

UpperLetters ==
  << "A", "B", "C", "D", "E", "F", "G", "H", "I", "J", "K", "L", "M",
     "N", "O", "P", "Q", "R", "S", "T", "U", "V", "W", "X", "Y", "Z" >>

LowerLetters ==
  << "a", "b", "c", "d", "e", "f", "g", "h", "i", "j", "k", "l", "m",
     "n", "o", "p", "q", "r", "s", "t", "u", "v", "w", "x", "y", "z" >>

Digits == << "0", "1", "2", "3", "4", "5", "6", "7", "8", "9" >>

Range(f) == { f[i] : i \in DOMAIN f }

\* ord(c): the position of c in ASCII order.
OrdMap == [c \in Range(Ascii) |-> CHOOSE i \in DOMAIN Ascii : Ascii[i] = c]

Ord(c) == OrdMap[c]

\* str.lower() on one character.
LowerMap ==
  [c \in Range(Ascii) |->
     IF c \in Range(UpperLetters)
       THEN LowerLetters[CHOOSE i \in DOMAIN UpperLetters : UpperLetters[i] = c]
       ELSE c]

LowerChar(c) == LowerMap[c]

\* The class [a-z0-9].
AlnumLower == Range(LowerLetters) \cup Range(Digits)

IsAlnumLower(c) == c \in AlnumLower

\* The class \w (letters, digits, underscore) that \b is defined by.
WordChars ==
  Range(LowerLetters) \cup Range(UpperLetters) \cup Range(Digits) \cup {"_"}

IsWordChar(c) == c \in WordChars

\* The class \s; the alphabet's only whitespace is the space.
IsSpace(c) == c = " "

(***************************************************************************)
(* Strings as sequences of characters                                      *)
(***************************************************************************)

\* str.lower()
Lower(s) == [i \in DOMAIN s |-> LowerChar(s[i])]

\* The characters of s that are in keep, in order.
FilterChars(s, keep) == SelectSeq(s, LAMBDA c : c \in keep)

\* s[a..b] as a sequence (empty when a > b).
Slice(s, a, b) == IF a > b THEN << >> ELSE SubSeq(s, a, b)

\* str.startswith
StartsWith(s, p) == Len(p) <= Len(s) /\ SubSeq(s, 1, Len(p)) = p

\* str.endswith
EndsWith(s, p) ==
  Len(p) <= Len(s) /\ Slice(s, Len(s) - Len(p) + 1, Len(s)) = p

\* "p in s" for strings: p occurs as a substring of s.
Contains(s, p) ==
  \E i \in 1 .. (Len(s) - Len(p) + 1) : SubSeq(s, i, i + Len(p) - 1) = p

\* str.rstrip() / str.lstrip() / str.strip() (whitespace).
RECURSIVE RStrip(_)
RStrip(s) ==
  IF s # << >> /\ IsSpace(s[Len(s)]) THEN RStrip(SubSeq(s, 1, Len(s) - 1)) ELSE s

RECURSIVE LStrip(_)
LStrip(s) == IF s # << >> /\ IsSpace(Head(s)) THEN LStrip(Tail(s)) ELSE s

Strip(s) == LStrip(RStrip(s))

\* str.rstrip(".")
RECURSIVE RStripDots(_)
RStripDots(s) ==
  IF s # << >> /\ s[Len(s)] = "." THEN RStripDots(SubSeq(s, 1, Len(s) - 1)) ELSE s

\* Python's < on strings: lexicographic by character code, a proper prefix first.
RECURSIVE StrLess(_, _)
StrLess(a, b) ==
  IF b = << >> THEN FALSE
  ELSE IF a = << >> THEN TRUE
  ELSE IF Head(a) # Head(b) THEN Ord(Head(a)) < Ord(Head(b))
  ELSE StrLess(Tail(a), Tail(b))

\* str(n) for a natural number.
RECURSIVE Decimal(_)
Decimal(n) ==
  IF n < 10 THEN << Digits[n + 1] >>
  ELSE Decimal(n \div 10) \o << Digits[(n % 10) + 1] >>

(***************************************************************************)
(* Name normaliser                                                         *)
(***************************************************************************)

\* sanitize_filename: ":" becomes "_", the characters <>:"/\|?* are removed,
\* every whitespace run becomes one space, then strip() and rstrip(".").
IllegalChars == { "<", ">", ":", "\"", "/", "\\", "|", "?", "*" }

LegalChars == Range(Ascii) \ IllegalChars

\* re.sub(r"\s+", " ", s): of every whitespace run its first character is
\* kept, as a space.
CollapseSpaces(s) ==
  LET kept == SelectSeq([k \in DOMAIN s |-> k],
                        LAMBDA k : ~IsSpace(s[k]) \/ k = 1 \/ ~IsSpace(s[k - 1]))
  IN  [j \in DOMAIN kept |-> IF IsSpace(s[kept[j]]) THEN " " ELSE s[kept[j]]]

sanitize_filename(name) ==
  LET colons  == [i \in DOMAIN name |-> IF name[i] = ":" THEN "_" ELSE name[i]]
      legal   == FilterChars(colons, LegalChars)
  IN  RStripDots(Strip(CollapseSpaces(legal)))

\* normalize_key without str.lower().
normalize_key_NoLower(s) == FilterChars(s, AlnumLower)

\* normalize_key: lower-case, then drop every character outside [a-z0-9].
normalize_key(s) == FilterChars(Lower(s), AlnumLower)

\* tokenize: the maximal runs of [a-z0-9] of the lower-cased string, in order.
RECURSIVE TokenRuns(_, _)
TokenRuns(s, cur) ==
  IF s = << >> THEN (IF cur = << >> THEN << >> ELSE << cur >>)
  ELSE IF IsAlnumLower(Head(s)) THEN TokenRuns(Tail(s), Append(cur, Head(s)))
  ELSE (IF cur = << >> THEN << >> ELSE << cur >>) \o TokenRuns(Tail(s), << >>)

tokenize(s) == TokenRuns(Lower(s), << >>)

\* The pitch words the two pitch regular expressions accept, and the
\* canonical colour extract_pitch maps each to.
PitchWords ==
  { << "r", "e", "d" >>, << "y", "e", "l", "l", "o", "w" >>,
    << "b", "l", "u", "e" >>, << "y", "e", "l" >>, << "b", "l", "u" >> }

CanonicalPitch(w) ==
  IF w = << "y", "e", "l" >> THEN << "y", "e", "l", "l", "o", "w" >>
  ELSE IF w = << "b", "l", "u" >> THEN << "b", "l", "u", "e" >>
  ELSE w

NoPitch == << >>

\* The words w for which name ends with "(" w ")" \s*, case-insensitively
\* (the match of \((w)\)\s*$).
TrailingParenWords(name, words) ==
  LET t == Lower(RStrip(name))
  IN  { w \in words : EndsWith(t, << "(" >> \o w \o << ")" >>) }

\* extract_pitch: the canonical colour of a trailing pitch annotation, or
\* NoPitch (None).
extract_pitch(name) ==
  LET ws == TrailingParenWords(name, PitchWords)
  IN  IF ws = {} THEN NoPitch ELSE CanonicalPitch(CHOOSE w \in ws : TRUE)

\* re.sub(r"\s*\((w)\)\s*$", "", name).strip() for w in words: the leftmost
\* match starts at the whitespace run before the parenthesis.
StripTrailingParen(name, words) ==
  LET t  == RStrip(name)
      ws == TrailingParenWords(name, words)
      w  == CHOOSE x \in ws : TRUE
  IN  IF ws = {} THEN Strip(name)
      ELSE Strip(RStrip(SubSeq(t, 1, Len(t) - Len(w) - 2)))

strip_pitch_suffix(name) == StripTrailingParen(name, PitchWords)

BackWord == << "b", "a", "c", "k" >>

strip_back_suffix(name) == StripTrailingParen(name, { BackWord })

\* re.search(rf"\b{w}\b", s): w occurs in s with a word boundary on each side.
\* (w is a pitch word: it starts and ends with a word character.)
HasWord(s, w) ==
  \E i \in 1 .. (Len(s) - Len(w) + 1) :
     /\ SubSeq(s, i, i + Len(w) - 1) = w
     /\ (i = 1 \/ ~IsWordChar(s[i - 1]))
     /\ (i + Len(w) - 1 = Len(s) \/ ~IsWordChar(s[i + Len(w)]))

\* re.findall(r"\(([^)]{2,})\)", s): scanning left to right, at each "("
\* the group runs to the next ")" and must hold at least two characters; a
\* match consumes through its ")", a failure moves one character on.
RECURSIVE ParenGroupsFrom(_, _)
ParenGroupsFrom(s, i) ==
  IF i > Len(s) THEN << >>
  ELSE IF s[i] # "(" THEN ParenGroupsFrom(s, i + 1)
  ELSE LET closes == { j \in (i + 1) .. Len(s) : s[j] = ")" }
           j == CHOOSE x \in closes : \A y \in closes : x <= y
       IN  IF closes = {} THEN << >>
           ELSE IF j - i - 1 >= 2
             THEN << SubSeq(s, i + 1, j - 1) >> \o ParenGroupsFrom(s, j + 1)
             ELSE ParenGroupsFrom(s, i + 1)

ParenGroups(s) == ParenGroupsFrom(s, 1)

(***************************************************************************)
(* Catalog entries and the catalog indexer                                 *)
(***************************************************************************)

\* A catalog entry is a path under the images root: its directory (relative
\* to the root, "" for the root itself), its stem and its suffix.
File(dir, stem, ext) == [dir |-> dir, stem |-> stem, ext |-> ext]

\* str(path), relative to the images root (a prefix all paths share).
PathStr(p) ==
  (IF p.dir = << >> THEN << >> ELSE p.dir \o << "/" >>) \o p.stem \o p.ext

\* p.name
FileName(p) == p.stem \o p.ext

\* The position of x in the sequence s, or 0.
IndexOf(s, x) ==
  IF \E i \in DOMAIN s : s[i] = x
    THEN CHOOSE i \in DOMAIN s : s[i] = x /\ \A j \in 1 .. (i - 1) : s[j] # x
    ELSE 0

\* ext_order.get(x.suffix.lower(), 999): the position of the suffix in the
\* preference list, 999 for a suffix that is not in it.
UnknownExtRank == 999

ExtRank(p, exts) ==
  IF IndexOf(exts, Lower(p.ext)) = 0 THEN UnknownExtRank
  ELSE IndexOf(exts, Lower(p.ext)) - 1

\* The sort key (ext rank, str(x).lower()) compared as Python compares tuples.
SortKeyLess(a, b, exts) ==
  \/ ExtRank(a, exts) < ExtRank(b, exts)
  \/ /\ ExtRank(a, exts) = ExtRank(b, exts)
     /\ StrLess(Lower(PathStr(a)), Lower(PathStr(b)))

\* list.sort(key=...) is stable: x goes after every entry whose key is not
\* greater than its own.
RECURSIVE InsertSorted(_, _, _)
InsertSorted(x, sorted, exts) ==
  IF sorted = << >> THEN << x >>
  ELSE IF SortKeyLess(x, Head(sorted), exts) THEN << x >> \o sorted
  ELSE << Head(sorted) >> \o InsertSorted(x, Tail(sorted), exts)

RECURSIVE SortBucket(_, _)
SortBucket(paths, exts) ==
  IF paths = << >> THEN << >>
  ELSE InsertSorted(paths[Len(paths)],
                    SortBucket(SubSeq(paths, 1, Len(paths) - 1), exts), exts)

\* The distinct elements of s in the order of their first occurrence.
RECURSIVE Distinct(_)
Distinct(s) ==
  IF s = << >> THEN << >>
  ELSE LET init == Distinct(SubSeq(s, 1, Len(s) - 1))
       IN  IF \E i \in DOMAIN init : init[i] = s[Len(s)] THEN init
           ELSE Append(init, s[Len(s)])

\* The index: a dict, i.e. its keys in insertion order and a bucket per key.
EmptyIndex == [keys |-> << >>, bucket |-> << >>]

InIndex(k, ix) == \E i \in DOMAIN ix.keys : ix.keys[i] = k

\* The bucket of key k (k must be a key).
Bucket(ix, k) == ix.bucket[IndexOf(ix.keys, k)]

\* index_library on an existing root, given the order in which rglob yields
\* the files: every file is appended to the catalog and, when its key is not
\* empty, to its key's bucket; then every bucket is sorted.
BuildIndex(scan, exts) ==
  LET keyed == SelectSeq(scan, LAMBDA p : normalize_key(p.stem) # << >>)
      keys  == Distinct([i \in DOMAIN keyed |-> normalize_key(keyed[i].stem)])
  IN  [keys   |-> keys,
       bucket |-> [i \in DOMAIN keys |->
                     SortBucket(SelectSeq(keyed,
                                  LAMBDA p : normalize_key(p.stem) = keys[i]),
                                exts)]]

\* All orderings of a finite set as sequences.
RECURSIVE Orderings(_)
Orderings(S) ==
  IF S = {} THEN { << >> }
  ELSE UNION { { << x >> \o t : t \in Orderings(S \ {x}) } : x \in S }

\* What "for ext in exts: rglob('*' + ext)" yields for a directory tree the
\* file system lists in the order `listing`: one extension after the other,
\* the files of one extension in the file system's order.
RECURSIVE Scan(_, _)
Scan(listing, exts) ==
  IF exts = << >> THEN << >>
  ELSE SelectSeq(listing, LAMBDA p : p.ext = Head(exts))
         \o Scan(listing, Tail(exts))

(***************************************************************************)
(* Card matcher                                                            *)
(***************************************************************************)

NoFile == [dir |-> << >>, stem |-> << >>, ext |-> << >>]

\* The concatenation of the buckets of the keys ks, in that order.
RECURSIVE BucketsOf(_, _)
BucketsOf(ix, ks) ==
  IF ks = << >> THEN << >>
  ELSE Bucket(ix, Head(ks)) \o BucketsOf(ix, Tail(ks))

\* k.startswith(b) or b.startswith(k)
PrefixRelated(k, b) == StartsWith(k, b) \/ StartsWith(b, k)

MatchResult(src, candidates, exact) ==
  [src |-> src, candidates |-> candidates, exact |-> exact]

\* Step 1 of best_match: the bucket of the normalized full name.
ExactStep(card_name, ix) ==
  IF InIndex(normalize_key(card_name), ix)
    THEN Bucket(ix, normalize_key(card_name))
    ELSE << >>

\* PrefixStep with the pitch filter of line 138 forgotten.
PrefixStep_NoPitchFilter(card_name, ix) ==
  LET pitch    == extract_pitch(card_name)
      base     == IF pitch # NoPitch THEN strip_pitch_suffix(card_name)
                  ELSE card_name
      base_key == normalize_key(base)
  IN  BucketsOf(ix, SelectSeq(ix.keys, LAMBDA k : PrefixRelated(k, base_key)))

\* Step 2: the entries of every key prefix-related to the pitch-stripped
\* base key, filtered by the pitch word when the name carries a pitch.
PrefixStep(card_name, ix) ==
  LET pitch      == extract_pitch(card_name)
      base       == IF pitch # NoPitch THEN strip_pitch_suffix(card_name)
                    ELSE card_name
      base_key   == normalize_key(base)
      cand_keys  == SelectSeq(ix.keys, LAMBDA k : PrefixRelated(k, base_key))
      candidates == BucketsOf(ix, cand_keys)
  IN  IF pitch # NoPitch
        THEN SelectSeq(candidates, LAMBDA p : HasWord(Lower(p.stem), pitch))
        ELSE candidates

\* LooseStep with the pitch filter of the prefix step applied to it.
LooseStep_PitchFiltered(card_name, ix) ==
  LET rb_key == normalize_key(strip_back_suffix(strip_pitch_suffix(card_name)))
      loose  == BucketsOf(ix, SelectSeq(ix.keys, LAMBDA k : PrefixRelated(k, rb_key)))
  IN  IF rb_key = << >> THEN << >>
      ELSE IF extract_pitch(card_name) # NoPitch
        THEN SelectSeq(loose, LAMBDA p : HasWord(Lower(p.stem), extract_pitch(card_name)))
      ELSE loose

\* Step 3: the entries of every key prefix-related to the key of the name
\* without pitch and "(Back)", provided that key is not empty.
LooseStep(card_name, ix) ==
  LET rb_key == normalize_key(strip_back_suffix(strip_pitch_suffix(card_name)))
  IN  IF rb_key = << >> THEN << >>
      ELSE BucketsOf(ix, SelectSeq(ix.keys, LAMBDA k : PrefixRelated(k, rb_key)))

\* best_match with the prefix step tried before the exact lookup.
best_match_PrefixFirst(card_name, ix) ==
  LET exact  == ExactStep(card_name, ix)
      prefix == PrefixStep(card_name, ix)
      loose  == LooseStep(card_name, ix)
  IN  IF prefix # << >> THEN MatchResult(Head(prefix), prefix, FALSE)
      ELSE IF InIndex(normalize_key(card_name), ix)
        THEN MatchResult(Head(exact), exact, TRUE)
      ELSE IF loose # << >> THEN MatchResult(Head(loose), loose, FALSE)
      ELSE MatchResult(NoFile, << >>, FALSE)

best_match(card_name, ix) ==
  LET exact  == ExactStep(card_name, ix)
      prefix == PrefixStep(card_name, ix)
      loose  == LooseStep(card_name, ix)
  IN  IF InIndex(normalize_key(card_name), ix)
        THEN MatchResult(Head(exact), exact, TRUE)
      ELSE IF prefix # << >> THEN MatchResult(Head(prefix), prefix, FALSE)
      ELSE IF loose # << >> THEN MatchResult(Head(loose), loose, FALSE)
      ELSE MatchResult(NoFile, << >>, FALSE)

(***************************************************************************)
(* Back-art resolver                                                       *)
(***************************************************************************)

\* The "(Back)" marker find_back_images and handle_deck format into names.
BackMarker == << " ", "(", "B", "a", "c", "k", ")" >>

\* The backs map: a dict from front names to back names, as a function on
\* the set of its keys.
InMap(k, m) == k \in DOMAIN m

\* "set(a) <= set(b)" on token lists.
TokensSubset(a, b) == Range(a) \subseteq Range(b)

\* The names strategy 1 looks up, in order: "{base} (Back)", with a pitch
\* "{base} ({pitch}) (Back)", and the same form of the matched file's stem.
ExplicitBackNames(front_card, src) ==
  LET pitch == extract_pitch(front_card)
      base  == strip_back_suffix(strip_pitch_suffix(front_card))
  IN  << base \o BackMarker >>
      \o (IF pitch # NoPitch
            THEN << base \o << " ", "(" >> \o pitch \o << ")" >> \o BackMarker >>
            ELSE << >>)
      \o << strip_back_suffix(strip_pitch_suffix(src.stem)) \o BackMarker >>

\* Strategy 1: the buckets of the explicit names that are keys, concatenated.
RECURSIVE BucketsOfNames(_, _)
BucketsOfNames(ix, names) ==
  IF names = << >> THEN << >>
  ELSE (IF InIndex(normalize_key(Head(names)), ix)
          THEN Bucket(ix, normalize_key(Head(names)))
          ELSE << >>)
       \o BucketsOfNames(ix, Tail(names))

ExplicitBacks(front_card, src, ix) ==
  BucketsOfNames(ix, ExplicitBackNames(front_card, src))

\* Strategy 2: of the keys (front_card, base), the first one that is in the
\* map and whose mapped name is a key of the index gives its bucket.
RECURSIVE MappedBacksOf(_, _, _)
MappedBacksOf(keys, ix, map) ==
  IF keys = << >> THEN << >>
  ELSE IF InMap(Head(keys), map) /\ InIndex(normalize_key(map[Head(keys)]), ix)
    THEN Bucket(ix, normalize_key(map[Head(keys)]))
  ELSE MappedBacksOf(Tail(keys), ix, map)

MappedBacks(front_card, ix, map) ==
  MappedBacksOf(<< front_card, strip_back_suffix(strip_pitch_suffix(front_card)) >>,
                ix, map)

\* Strategy 3: every catalog file one of whose parenthetical groups holds
\* all tokens of the base name (no file when the base has no token).
ParenBacks(front_card, cat) ==
  LET base_tokens == tokenize(strip_back_suffix(strip_pitch_suffix(front_card)))
  IN  IF base_tokens = << >> THEN << >>
      ELSE SelectSeq(cat, LAMBDA p :
             \E g \in Range(ParenGroups(p.stem)) :
                TokensSubset(base_tokens, tokenize(g)))

\* Strategy 4: every catalog file whose lower-cased stem contains "back" and
\* holds all tokens of the base name.
KeywordBacks(front_card, cat) ==
  LET base_tokens == tokenize(strip_back_suffix(strip_pitch_suffix(front_card)))
  IN  SelectSeq(cat, LAMBDA p :
        /\ Contains(Lower(p.stem), BackWord)
        /\ TokensSubset(base_tokens, tokenize(Lower(p.stem))))

\* The dedup loop: the first entry of each (stem, suffix.lower()) is kept.
RECURSIVE Dedup(_)
Dedup(results) ==
  IF results = << >> THEN << >>
  ELSE LET init == Dedup(SubSeq(results, 1, Len(results) - 1))
           p    == results[Len(results)]
       IN  IF \E i \in DOMAIN init :
                 init[i].stem = p.stem /\ Lower(init[i].ext) = Lower(p.ext)
             THEN init
             ELSE Append(init, p)

\* ResolveBacks with the override map consulted before the explicit forms.
ResolveBacks_MapFirst(front_card, src, ix, cat, map) ==
  LET explicit == ExplicitBacks(front_card, src, ix)
      mapped   == MappedBacks(front_card, ix, map)
      paren    == ParenBacks(front_card, cat)
  IN  IF mapped # << >> THEN Dedup(mapped)
      ELSE IF explicit # << >> THEN Dedup(explicit)
      ELSE IF paren # << >> THEN Dedup(paren)
      ELSE Dedup(KeywordBacks(front_card, cat))

\* The cascade of find_back_images on a cache miss: each strategy runs only
\* when the ones before it found nothing; the result is deduplicated.
ResolveBacks(front_card, src, ix, cat, map) ==
  LET explicit == ExplicitBacks(front_card, src, ix)
      mapped   == MappedBacks(front_card, ix, map)
      paren    == ParenBacks(front_card, cat)
  IN  IF explicit # << >> THEN Dedup(explicit)
      ELSE IF mapped # << >> THEN Dedup(mapped)
      ELSE IF paren # << >> THEN Dedup(paren)
      ELSE Dedup(KeywordBacks(front_card, cat))

\* BACK_CACHE is a dict keyed by normalize_key(front_card).
CacheKey(front_card) == normalize_key(front_card)

\* dict item assignment: d[k] = v.
DictPut(d, k, v) == [x \in DOMAIN d \cup { k } |-> IF x = k THEN v ELSE d[x]]

\* find_back_images: the cached list on a hit; on a miss the cascade's list,
\* which is stored under the key.  Returns the list and the cache after.
find_back_images(front_card, src, ix, cat, map, cache) ==
  LET cache_key == CacheKey(front_card)
      deduped   == ResolveBacks(front_card, src, ix, cat, map)
  IN  IF cache_key \in DOMAIN cache
        THEN [result |-> cache[cache_key], cache |-> cache]
        ELSE [result |-> deduped, cache |-> DictPut(cache, cache_key, deduped)]

(***************************************************************************)
(* Deck parsing and folder naming                                          *)
(***************************************************************************)

\* The canonical "(colour)" suffix parse_deck_file gives a pitched name.
CanonicalName(nm) ==
  IF extract_pitch(nm) # NoPitch
    THEN strip_pitch_suffix(nm) \o << " ", "(" >> \o extract_pitch(nm) \o << ")" >>
    ELSE nm

\* parse_deck_file's card entries: a decklist is given by the display name
\* its headers and file name resolve to, its side and game headers, and its
\* "<count> x <name>" lines as (cnt, name) pairs; each name gets the
\* canonical pitch suffix.
ParseEntries(deck) ==
  [k \in DOMAIN deck.lines |->
     [qty |-> deck.lines[k].cnt, card |-> CanonicalName(deck.lines[k].nm)]]

Dash == << " ", "-", " " >>

\* --game and --name-template as the runs are started: their defaults.
GameCli == << >>

\* compose_folder_base with the default (empty) name template.
compose_folder_base(deck_display, side, game_cli, game_header) ==
  LET game == Strip(IF game_header # << >> THEN game_header ELSE game_cli)
      deck == Strip(deck_display)
      sd   == Strip(side)
  IN  IF game # << >> /\ sd # << >> THEN game \o Dash \o sd \o Dash \o deck
      ELSE IF game # << >> THEN game \o Dash \o deck
      ELSE IF sd # << >> THEN sd \o Dash \o deck
      ELSE deck

(***************************************************************************)
(* The output root and the folder-claim ledger                             *)
(***************************************************************************)

\* The output root is a function from the names of its folders to their
\* content, a function from file names to what was copied there.  The empty
\* name is the output root itself (base_dir / "" is base_dir): its content
\* is the files that lie in the output root directly.
EmptyDir == << >>

\* The name of the output root in its parent (args.output).
OutputRootName == << "o", "u", "t" >>

\* The output root as a directory: whether it exists, and the folders
\* beside it that it was renamed to, each with the tree it had.
NoRoot == [exists |-> FALSE, moved |-> << >>]

\* Path.mkdir(parents=True, exist_ok=True) of the output root or of a folder
\* of it: the output root exists afterwards.
MadeRoot(r) == [r EXCEPT !.exists = TRUE]

\* log()'s "error_log.parent.mkdir(parents=True, exist_ok=True)": a run that
\* has logged a line has made the output root.
LogDir(r, before, after) == IF after # before THEN MadeRoot(r) ELSE r

\* Path.exists() of base_dir / name.
Exists(tree, name, root) ==
  IF name = << >> THEN root.exists ELSE name \in DOMAIN tree

\* dest_dir.name
DirName(d) == IF d = << >> THEN OutputRootName ELSE d

\* The folders of dest_dir.parent that a rename of dest_dir can meet.
Beside(tree, d, root) == IF d = << >> THEN root.moved ELSE tree

\* Path.mkdir(parents=True, exist_ok=True) of a folder of the output root.
Mkdir(tree, name) ==
  IF name \in DOMAIN tree THEN tree ELSE DictPut(tree, name, EmptyDir)

\* Path.rename of a folder of the output root to a name that is free.
Rename(tree, old, new) ==
  [d \in (DOMAIN tree \ { old }) \cup { new } |->
     IF d = new THEN tree[old] ELSE tree[d]]

\* f"{name} (variant {n})", sanitized.
VariantName(name, n) ==
  sanitize_filename(name \o << " ", "(", "v", "a", "r", "i", "a", "n", "t", " " >>
                         \o Decimal(n) \o << ")" >>)

\* The first n >= 2 the "while True" loops stop at: the least n whose
\* variant name is not taken.  At most Cardinality(taken) names are taken,
\* so the loop stops within that many steps.
FirstFreeVariant(name, taken) ==
  CHOOSE n \in 2 .. (Cardinality(taken) + 2) :
     /\ VariantName(name, n) \notin taken
     /\ \A k \in 2 .. (n - 1) : VariantName(name, k) \in taken

\* dict.setdefault(k, v) as d[k] = v.
SetDefault_Overwrite(d, k, v) == DictPut(d, k, v)

\* dict.setdefault(k, v)
SetDefault(d, k, v) == IF k \in DOMAIN d THEN d ELSE DictPut(d, k, v)

\* choose_dest_dir with the collision check made before the reuse check.
choose_dest_dir_CollisionFirst(tree, base_name, deck_key, existing, claims, root) ==
  LET base == sanitize_filename(base_name)
      n    == FirstFreeVariant(base, DOMAIN tree \cup DOMAIN claims)
  IN  IF base \in DOMAIN claims /\ claims[base] # deck_key
        THEN [target |-> VariantName(base, n),
              tree   |-> Mkdir(tree, VariantName(base, n)),
              claims |-> DictPut(claims, VariantName(base, n), deck_key),
              path   |-> "variant"]
      ELSE IF base \in existing \/ Exists(tree, base, root)
        THEN [target |-> base,
              tree   |-> Mkdir(tree, base),
              claims |-> SetDefault(claims, base, deck_key),
              path   |-> "reuse"]
      ELSE [target |-> base,
            tree   |-> Mkdir(tree, base),
            claims |-> DictPut(claims, base, deck_key),
            path   |-> "fresh"]

\* choose_dest_dir: the folder returned (its name under the output root),
\* the output root and the ledger after the call, and the path taken
\* ("reuse", "variant": one [VARIANT] line is logged, or "fresh").
choose_dest_dir(tree, base_name, deck_key, existing, claims, root) ==
  LET base == sanitize_filename(base_name)
      n    == FirstFreeVariant(base, DOMAIN tree \cup DOMAIN claims)
  IN  IF base \in existing \/ Exists(tree, base, root)
        THEN [target |-> base,
              tree   |-> Mkdir(tree, base),
              claims |-> SetDefault(claims, base, deck_key),
              path   |-> "reuse"]
      ELSE IF base \in DOMAIN claims /\ claims[base] # deck_key
        THEN [target |-> VariantName(base, n),
              tree   |-> Mkdir(tree, VariantName(base, n)),
              claims |-> DictPut(claims, VariantName(base, n), deck_key),
              path   |-> "variant"]
      ELSE [target |-> base,
            tree   |-> Mkdir(tree, base),
            claims |-> DictPut(claims, base, deck_key),
            path   |-> "fresh"]

\* The marker handle_deck passes to rename_with_suffix.
UniqueBacksSuffix ==
  << " ", "-", " ", "U", "n", "i", "q", "u", "e", " ", "f", "r", "o", "n", "t",
     " ", "a", "n", "d", " ", "b", "a", "c", "k", "s" >>

\* rename_with_suffix without the test that the new name is free.
RenameTarget_Onto(tree, name, suffix) ==
  IF EndsWith(name, suffix) THEN name
  ELSE sanitize_filename(name \o << " " >> \o suffix)

\* rename_with_suffix: the name the folder is to be renamed to, or the
\* folder's own name when it already ends with the suffix (no rename).
RenameTarget(tree, name, suffix) ==
  LET new_name == sanitize_filename(name \o << " " >> \o suffix)
  IN  IF EndsWith(name, suffix) THEN name
      ELSE IF new_name \notin DOMAIN tree THEN new_name
      ELSE VariantName(new_name, FirstFreeVariant(new_name, DOMAIN tree))

(***************************************************************************)
(* State                                                                   *)
(***************************************************************************)

VARIABLES
  images,      \* the image files under --images, in the order the file
               \* system lists them (the environment)
  images_root_exists,   \* --images is a directory that exists (the environment)
  exts,        \* args.exts, lower-cased: the extension preference list
  backs_map,   \* load_backs_map's dict
  catalog,     \* index_library's flat catalog, in scan order
  index,       \* index_library's index
  BACK_CACHE,  \* the module-level cache of find_back_images
  matched,     \* the card being looked up and best_match's result for it
  backs,       \* the last find_back_images call and its result
  pc,          \* the position of the program
  decks,       \* the decklists under --decks, in sorted order (the environment)
  fs,          \* the output root: folder name -> (file name -> content)
  output_root, \* the output root as a directory of its parent
  existing_dirs_start,  \* main's snapshot of the output root's folders
  folder_claims,        \* main's ledger: folder name -> deck_key
  deck_no,     \* handle_deck: the position in deck_files
  entries,     \* handle_deck: the decklist's parsed entries
  entry_no,    \* handle_deck: the position in entries
  copy_no,     \* handle_deck: i of the copy loops
  dest_dir,    \* handle_deck: the name of the deck's folder
  unique_back_used,     \* handle_deck's flag
  log,         \* the number of lines of each tag this run has logged
  run,         \* the number of the run (0: no run, the functions are called alone)
  stats,       \* what this run has done to the output root so far
  faults,      \* the number of failed file operations so far
  chosen,      \* the last choose_dest_dir call of this run
  made_by,     \* folder name -> deck_key of the deck this run made it for
  tally,       \* the deck being handled: what was found and done for it
  prev_clean,  \* the previous run ended normally and without a failed operation
  phase,       \* "ref": the reference run, "main": the run observed
  ref,         \* what the reference run left and did
  probe,       \* the string a function is called alone with
  probed       \* what the function returned for it

libVars == << images, images_root_exists, exts, backs_map, catalog, index >>

\* The argument and the result of a function that is called alone.
fnVars == << probe, probed >>

\* The state of a run of main beyond the library.
runVars ==
  << decks, fs, output_root, existing_dirs_start, folder_claims, deck_no, entries, entry_no,
     copy_no, dest_dir, unique_back_used, log, run, stats, faults, chosen, made_by,
     tally, prev_clean, phase, ref >>

vars ==
  << images, images_root_exists, exts, backs_map, catalog, index, BACK_CACHE,
     matched, backs, pc, decks, fs, output_root, existing_dirs_start,
     folder_claims, deck_no, entries, entry_no, copy_no, dest_dir,
     unique_back_used, log, run, stats, faults, chosen, made_by, tally,
     prev_clean, phase, ref, probe, probed >>

(***************************************************************************)
(* Names and files the inputs are drawn from                               *)
(***************************************************************************)

ExtPng == <<".", "p", "n", "g">>
ExtJpg == <<".", "j", "p", "g">>
InRoot == << >>
NameCard == <<"C", "a", "r", "d">>
NameAb == <<"A", "b">>
NameAbRed == <<"A", "b", " ", "(", "R", "e", "d", ")">>
NameAbBlue == <<"A", "b", " ", "(", "B", "l", "u", "e", ")">>
NameAbYellow == <<"A", "b", " ", "(", "y", "e", "l", "l", "o", "w", ")">>
NameAbRedPlain == <<"A", "b", " ", "R", "e", "d">>
NameAbRedX == <<"A", "b", " ", "(", "R", "e", "d", ")", " ", "x">>
NameAbRedJoined == <<"A", "b", "R", "e", "d">>
NameZz == <<"Z", "z">>
NameRedOnly == <<"(", "R", "e", "d", ")">>
NameQuestion == <<"?", "?">>

\* The preference lists --exts is drawn from.
ExtPrefs == { << ExtPng, ExtJpg >>, << ExtJpg, ExtPng >> }

\* The image files the matcher's catalogs are drawn from.
MatchFiles ==
  { File(InRoot, NameCard, ExtPng), File(InRoot, NameCard, ExtJpg),
    File(InRoot, NameAbRed, ExtPng), File(InRoot, NameAbBlue, ExtPng),
    File(InRoot, NameAbRedJoined, ExtJpg), File(InRoot, NameAbRedX, ExtPng),
    File(InRoot, NameAb, ExtJpg) }

\* The card names the matcher is asked for.
MatchNames ==
  { NameCard, NameAb, NameAbRed, NameAbBlue, NameAbYellow, NameAbRedPlain, NameZz,
    NameRedOnly, NameQuestion }

\* The largest catalog.
MaxFiles == 3

\* The listings of at most MaxFiles files of a pool, in any order of the
\* files of one extension; the order between files of different extensions,
\* which no scan depends on, is fixed.
Catalogs(pool) ==
  UNION { { Scan(l, << ExtPng, ExtJpg >>) : l \in Orderings(S) } :
            S \in { T \in SUBSET pool : Cardinality(T) <= MaxFiles } }

NoMatch == [card |-> << >>, src |-> NoFile, candidates |-> << >>, exact |-> FALSE]

NoBacks == [front |-> << >>, src |-> NoFile, hit |-> FALSE, result |-> << >>]

\* The tags of the lines main logs.
LogTags ==
  { "ERROR", "MISSING", "AMBIGUOUS", "COPY-ERROR", "SKIP-EXISTS", "VARIANT",
    "RENAME-ERROR", "WARN" }

NoLog == [t \in LogTags |-> 0]

\* log(f"[{tag}] ...", error_log)
Logged(l, tag) == [l EXCEPT ![tag] = @ + 1]

NoStats == [copied |-> 0, created |-> 0, renamed |-> 0, failed |-> 0]

NoKey == << "none" >>

NoChoice ==
  [deck |-> 0, base |-> << >>, key |-> NoKey, target |-> << >>, path |-> "none",
   made |-> {}, claimant |-> NoKey, maker |-> NoKey, ledger |-> << >>,
   variants |-> {}]

\* No reference run was made.
NoRef == [fs |-> << >>, ops |-> 0]

NoTally ==
  [deck |-> 0, found |-> FALSE, back_copies |-> 0, rename_calls |-> 0,
   resolved |-> << >>]

\* The program before handle_deck is first called.
ProgramStart ==
  /\ existing_dirs_start = {}
  /\ folder_claims = << >>
  /\ deck_no = 0
  /\ entries = << >>
  /\ entry_no = 0
  /\ copy_no = 0
  /\ dest_dir = << >>
  /\ unique_back_used = FALSE
  /\ stats = NoStats
  /\ chosen = NoChoice
  /\ made_by = << >>
  /\ tally = NoTally

\* No function is called alone.
NoProbe == << >>

NoResult == [of |-> "none"]

NotProbing ==
  /\ probe = NoProbe
  /\ probed = NoResult

\* No run of main: best_match and find_back_images are called alone.
NoRun ==
  /\ ProgramStart
  /\ NotProbing
  /\ decks = << >>
  /\ fs = << >>
  /\ output_root = NoRoot
  /\ log = NoLog
  /\ run = 0
  /\ faults = 0
  /\ prev_clean = FALSE
  /\ phase = "main"
  /\ ref = NoRef

(***************************************************************************)
(* The indexer and the matcher as operations                               *)
(***************************************************************************)

\* index_library's report of a missing images root, left out.
ReportMissingRoot_Silent(l, exists) == l

\* "if not images_root.exists(): log([ERROR] ...)"
ReportMissingRoot(l, exists) == IF exists THEN l ELSE Logged(l, "ERROR")

\* main's call of index_library: a missing images root is reported and
\* gives an empty index and catalog; else the files are scanned extension
\* by extension, in the file system's order.
index_library ==
  /\ pc = "index"
  /\ log' = ReportMissingRoot(log, images_root_exists)
  /\ catalog' = IF images_root_exists THEN Scan(images, exts) ELSE << >>
  /\ index' = IF images_root_exists THEN BuildIndex(Scan(images, exts), exts)
                                     ELSE EmptyIndex
  /\ pc' = "ready"
  /\ output_root' = LogDir(output_root, log, log')
  /\ UNCHANGED << fnVars, images, images_root_exists, exts, backs_map,
                  BACK_CACHE, matched, backs, decks, fs, existing_dirs_start,
                  folder_claims, deck_no, entries, entry_no, copy_no, dest_dir,
                  unique_back_used, run, stats, faults, chosen, made_by, tally,
                  prev_clean, phase, ref >>

\* A call best_match(name, index).
CallBestMatch ==
  /\ pc = "ready"
  /\ \E name \in MatchNames :
        matched' = [card |-> name] @@ best_match(name, index)
  /\ UNCHANGED << fnVars, libVars, BACK_CACHE, backs, pc, runVars >>

InitMatch ==
  /\ images \in Catalogs(MatchFiles)
  /\ images_root_exists = TRUE
  /\ exts \in ExtPrefs
  /\ backs_map = << >>
  /\ catalog = << >>
  /\ index = EmptyIndex
  /\ BACK_CACHE = << >>
  /\ matched = NoMatch
  /\ backs = NoBacks
  /\ pc = "index"
  /\ NoRun

NextMatch == index_library \/ CallBestMatch

SpecMatch == InitMatch /\ [][NextMatch]_vars

(***************************************************************************)
(* Claims about the matcher (checked under SpecMatch)                      *)
(***************************************************************************)

\* A best_match call has returned for matched.card.
Matched == pc = "ready" /\ matched.card # << >>

\* The image files whose stem has the normalized key k.
FilesOfKey(k) == { f \in Range(images) : normalize_key(f.stem) = k }

\* The stem ends with the pitch annotation of colour c.
TaggedWith(stem, c) == extract_pitch(stem) = c

\* C7: whenever the normalized full requested name is a key of the index,
\* best_match returns exact = true, the whole bucket of that key as
\* candidates (every file of that key, once, in extension-preference then
\* path order) and the bucket's first entry as the pick, whatever other keys
\* are prefix-related; with Card.png, Card.jpg and preference [.png, .jpg]
\* the pick for "Card" is Card.png.
C7_ExactPrecedence ==
  (Matched /\ InIndex(normalize_key(matched.card), index)) =>
     LET key == normalize_key(matched.card)
     IN  /\ matched.exact
         /\ matched.candidates = Bucket(index, key)
         /\ Range(matched.candidates) = FilesOfKey(key)
         /\ Len(matched.candidates) = Cardinality(FilesOfKey(key))
         /\ matched.src = matched.candidates[1]
         /\ \A f \in FilesOfKey(key) : ~SortKeyLess(f, matched.src, exts)
         /\ ( /\ matched.card = NameCard
              /\ exts = << ExtPng, ExtJpg >>
              /\ File(InRoot, NameCard, ExtPng) \in Range(images) )
            => matched.src = File(InRoot, NameCard, ExtPng)

\* C7 witness: an exact hit for "Ab (Red)" while another key of the index
\* ("abredx") is prefix-related to the requested key.
C7_Witness ==
  /\ Matched
  /\ matched.card = NameAbRed
  /\ matched.exact
  /\ \E i \in DOMAIN index.keys :
        /\ index.keys[i] # normalize_key(matched.card)
        /\ PrefixRelated(index.keys[i], normalize_key(matched.card))

\* The catalog holds the file "B (P)" that is asked for and a file "B (Q)"
\* of another pitch Q.
PitchPair ==
  /\ Matched
  /\ extract_pitch(matched.card) # NoPitch
  /\ \E f \in Range(images) : f.stem = matched.card
  /\ \E g \in Range(images) :
        /\ strip_pitch_suffix(g.stem) = strip_pitch_suffix(matched.card)
        /\ extract_pitch(g.stem) \notin { NoPitch, extract_pitch(matched.card) }

\* The pitch-aware prefix step produced the result of the call.
ByPrefixStep ==
  /\ Matched
  /\ extract_pitch(matched.card) # NoPitch
  /\ ~InIndex(normalize_key(matched.card), index)
  /\ PrefixStep(matched.card, index) # << >>

\* Every candidate's stem holds the requested colour word as a token.
PitchTokenInAll ==
  \A i \in DOMAIN matched.candidates :
     extract_pitch(matched.card) \in Range(tokenize(matched.candidates[i].stem))

\* No candidate is tagged with a pitch other than the requested one.
NoOtherPitch ==
  \A i \in DOMAIN matched.candidates :
     extract_pitch(matched.candidates[i].stem)
        \in { NoPitch, extract_pitch(matched.card) }

\* C8 as stated: with "B (P)" and "B (Q)" in the catalog, best_match("B (P)")
\* picks a file tagged P and returns no candidate tagged Q; and a result of
\* the pitch-aware prefix step holds only files with the colour word P as a
\* separate token.
C8_Original ==
  /\ PitchPair =>
       /\ TaggedWith(matched.src.stem, extract_pitch(matched.card))
       /\ NoOtherPitch
  /\ ByPrefixStep => PitchTokenInAll

\* C8 amended: with "B (P)" and "B (Q)" in the catalog, best_match("B (P)")
\* returns an exact match whose pick has the normalized key of "B (P)" (the
\* file "B (P)" is a candidate, but the pick may be an untagged file of the
\* same key that sorts before it), and no candidate is tagged Q; and a
\* result of the pitch-aware prefix step holds only files with the colour
\* word P as a separate token.
C8_PitchDisambiguation ==
  /\ PitchPair =>
       /\ matched.exact
       /\ normalize_key(matched.src.stem) = normalize_key(matched.card)
       /\ \E i \in DOMAIN matched.candidates :
             matched.candidates[i].stem = matched.card
       /\ NoOtherPitch
  /\ ByPrefixStep => (matched.candidates # << >> /\ PitchTokenInAll)

\* C8 witness: "Ab (Red)" is asked for, "Ab (Red)" and "Ab (Blue)" are in
\* the catalog, and the pick is the untagged "AbRed" of the same key.
C8_Witness ==
  /\ PitchPair
  /\ matched.card = NameAbRed
  /\ matched.src.stem = NameAbRedJoined

\* The exact step missed and the prefix step left no candidate.
LooseTurn ==
  /\ Matched
  /\ ~InIndex(normalize_key(matched.card), index)
  /\ PrefixStep(matched.card, index) = << >>

\* The key of the requested name without pitch and "(Back)".
StrippedKey == normalize_key(strip_back_suffix(strip_pitch_suffix(matched.card)))

\* The keys of the index that are prefix-related to the stripped key, in
\* the order the index iterates them.
RelatedKeys == SelectSeq(index.keys, LAMBDA k : PrefixRelated(k, StrippedKey))

\* C22: when the exact step misses and the pitch-aware prefix step leaves
\* no candidate, best_match returns exact = false, as candidates every file
\* of every key prefix-related to the key of the name without pitch and
\* "(Back)" (the buckets in index iteration order, no pitch filter) and as
\* pick the first of them; if no key is prefix-related or the stripped key
\* is empty, it returns no pick and no candidates.
C22_LooseIgnoresPitch ==
  LooseTurn =>
     /\ ~matched.exact
     /\ IF StrippedKey = << >> \/ RelatedKeys = << >>
          THEN matched.src = NoFile /\ matched.candidates = << >>
          ELSE /\ matched.candidates = BucketsOf(index, RelatedKeys)
               /\ Range(matched.candidates) =
                     { f \in Range(catalog) :
                         PrefixRelated(normalize_key(f.stem), StrippedKey) }
               /\ matched.src = Bucket(index, RelatedKeys[1])[1]

\* C22 witness: "Ab (yellow)" is resolved by the loose step to a file whose
\* stem lacks the colour word.
C22_Witness ==
  /\ LooseTurn
  /\ matched.card = NameAbYellow
  /\ matched.src # NoFile
  /\ ~HasWord(Lower(matched.src.stem), extract_pitch(matched.card))

\* The pitch-stripped base of the requested name has the empty key.
EmptyBaseKey == normalize_key(strip_pitch_suffix(matched.card)) = << >>

\* C28: for a non-empty index, a requested name whose pitch-stripped base
\* normalizes to the empty key (no alphanumeric character, or a pitch
\* annotation only) is resolved to no file: best_match returns no pick and
\* no candidates.
C28_EmptyKeyMatchesNothing ==
  (Matched /\ index.keys # << >> /\ EmptyBaseKey) =>
     (matched.src = NoFile /\ matched.candidates = << >>)

(***************************************************************************)
(* The back-art resolver as an operation                                   *)
(***************************************************************************)

NameAbc == <<"A", "b", "c">>
NameCd == <<"C", "d">>
NameAbBack == <<"A", "b", " ", "(", "B", "a", "c", "k", ")">>
NameAbcBack == <<"A", "b", "c", " ", "(", "B", "a", "c", "k", ")">>
NameZzAb == <<"Z", "z", " ", "(", "A", "b", ")">>
NameAbBackX == <<"A", "b", " ", "b", "a", "c", "k", " ", "x">>

\* The image files the resolver's catalogs are drawn from.
BackFiles ==
  { File(InRoot, NameAb, ExtPng), File(InRoot, NameAbBack, ExtPng),
    File(InRoot, NameAbcBack, ExtPng), File(InRoot, NameCd, ExtPng),
    File(InRoot, NameZzAb, ExtPng), File(InRoot, NameAbBackX, ExtJpg) }

\* The front card names the resolver is asked for.
BackNames == { NameAb, NameAbRed, NameAbRedPlain, NameAbc, NameCd }

\* The override maps --backs-map is drawn from.
BackMaps ==
  { << >>, (NameAb :> NameCd), (NameAbc :> NameAbBack) }

\* handle_deck's lookup of one card: best_match, then (for a matched card)
\* find_back_images with the matched file, which reads and fills BACK_CACHE.
CallFindBackImages ==
  /\ pc = "ready"
  /\ \E card \in BackNames :
       LET m == best_match(card, index)
           r == find_back_images(card, m.src, index, catalog, backs_map, BACK_CACHE)
       IN  /\ m.src # NoFile
           /\ matched' = [card |-> card] @@ m
           /\ backs' = [front  |-> card,
                        src    |-> m.src,
                        hit    |-> CacheKey(card) \in DOMAIN BACK_CACHE,
                        result |-> r.result]
           /\ BACK_CACHE' = r.cache
  /\ UNCHANGED << fnVars, libVars, pc, runVars >>

InitBacks ==
  /\ images \in Catalogs(BackFiles)
  /\ images_root_exists = TRUE
  /\ exts = << ExtPng, ExtJpg >>
  /\ backs_map \in BackMaps
  /\ catalog = << >>
  /\ index = EmptyIndex
  /\ BACK_CACHE = << >>
  /\ matched = NoMatch
  /\ backs = NoBacks
  /\ pc = "index"
  /\ NoRun

NextBacks == index_library \/ CallFindBackImages

SpecBacks == InitBacks /\ [][NextBacks]_vars

(***************************************************************************)
(* Claims about the back-art resolver (checked under SpecBacks)            *)
(***************************************************************************)

\* A find_back_images call has returned for backs.front.
Resolved == pc = "ready" /\ backs.front # << >>

\* The four strategies on the arguments of the last call.
S1 == ExplicitBacks(backs.front, backs.src, index)
S2 == MappedBacks(backs.front, index, backs_map)
S3 == ParenBacks(backs.front, catalog)
S4 == KeywordBacks(backs.front, catalog)

\* The pitch- and back-stripped base name of the last call's front card.
FrontBase == strip_back_suffix(strip_pitch_suffix(backs.front))

\* An explicit "X (Back)" file and an override-map entry for X both exist.
ExplicitAndMapped ==
  /\ Resolved /\ ~backs.hit
  /\ InIndex(normalize_key(FrontBase \o BackMarker), index)
  /\ S2 # << >>

\* The result holds a file named "X (Back)".
HoldsExplicit ==
  \E i \in DOMAIN backs.result :
     normalize_key(backs.result[i].stem) = normalize_key(FrontBase \o BackMarker)

\* The uncached result is the deduplicated list of the first non-empty
\* strategy, and holds nothing of a later one that the first did not find.
FirstNonEmptyWins ==
  (Resolved /\ ~backs.hit) =>
     /\ S1 # << >> => backs.result = Dedup(S1)
     /\ (S1 = << >> /\ S2 # << >>) => backs.result = Dedup(S2)
     /\ (S1 = << >> /\ S2 = << >> /\ S3 # << >>) => backs.result = Dedup(S3)
     /\ (S1 = << >> /\ S2 = << >> /\ S3 = << >>) => backs.result = Dedup(S4)

\* C9 as stated: the uncached result is that of the first non-empty strategy
\* (explicit forms, override map, parenthetical, keyword); and when an
\* explicit "X (Back)" file and a map entry for X (to another name) both
\* exist, the result holds the explicit file and not the mapped one.
C9_Original ==
  /\ FirstNonEmptyWins
  /\ (ExplicitAndMapped /\ Range(S2) # Range(Bucket(index, normalize_key(FrontBase \o BackMarker))))
       => /\ HoldsExplicit
          /\ Range(S2) \cap Range(backs.result) = {}

\* C9 amended: the uncached result is the deduplicated result of the first
\* non-empty strategy in the order explicit forms, override map,
\* parenthetical, keyword, and of no later strategy; when an explicit
\* "X (Back)" file and a map entry for X both exist, the result holds the
\* explicit file, and a mapped file only if an explicit form finds it too.
C9_CascadeOrder ==
  /\ FirstNonEmptyWins
  /\ ExplicitAndMapped
       => /\ HoldsExplicit
          /\ Range(backs.result) \subseteq Range(S1)
          /\ (Range(S2) \cap Range(backs.result)) \subseteq Range(S1)

\* C9 witness: an uncached call for which both an explicit "X (Back)" file
\* and a map entry to a different file exist, and the mapped file is left out.
C9_Witness ==
  /\ ExplicitAndMapped
  /\ HoldsExplicit
  /\ Range(S2) \cap Range(backs.result) = {}

\* C10: the list a find_back_images call returns equals the list the cascade
\* computes for the call's arguments with an empty cache.
C10_MemoTransparent ==
  Resolved =>
     backs.result = ResolveBacks(backs.front, backs.src, index, catalog, backs_map)

(***************************************************************************)
(* The copy orchestrator: main and handle_deck                             *)
(***************************************************************************)

NameStorm == <<"S", "t", "o", "r", "m">>
NameStormQ == <<"S", "t", "o", "r", "m", "?">>
NameGale == <<"G", "a", "l", "e">>

Deck(stem, display, lines) ==
  [stem |-> stem, display |-> display, side |-> << >>, game |-> << >>,
   lines |-> lines]

Line(cnt, nm) == [cnt |-> cnt, nm |-> nm]

\* The decklists the runs are given.  "Storm" and "Storm?" are two deck
\* identities whose folder base names are the same after sanitizing.
DeckA == Deck(<<"a">>, NameStorm, << Line(1, NameAb) >>)
DeckB == Deck(<<"b">>, NameStorm, << Line(2, NameCd) >>)
DeckC == Deck(<<"c">>, NameStormQ, << Line(1, NameCd) >>)
DeckD == Deck(<<"d">>, NameGale, << Line(0, NameAb), Line(1, NameZz) >>)

DeckPool == << DeckA, DeckB, DeckC, DeckD >>

\* The most decklists in --decks.
MaxDecks == 2

\* sorted(decks_root.glob("*.txt")): the chosen decklists in path order.
DeckLists ==
  { SelectSeq(DeckPool, LAMBDA d : d \in S) :
      S \in { T \in SUBSET Range(DeckPool) :
                Cardinality(T) >= 1 /\ Cardinality(T) <= MaxDecks } }

\* The image library of the runs: "Ab" has a back image, "Cd" has none and
\* "Zz" has no image.
RunImages ==
  << File(InRoot, NameAb, ExtPng), File(InRoot, NameAbBack, ExtPng),
     File(InRoot, NameCd, ExtPng) >>

\* The most runs of main, and the most file operations that fail.
MaxRuns == 2
MaxFaults == 1

\* The decklist being handled and its entries.
CurDeck == decks[deck_no]
Entry == entries[entry_no]

\* The copy loops: the file copied and the name of the copy.
NumberSuffix(k, qty) ==
  Dash \o Decimal(k) \o << " ", "o", "f", " " >> \o Decimal(qty)

CopySource == IF pc = "front" THEN matched.src ELSE backs.result[1]

OutName ==
  IF pc = "front"
    THEN sanitize_filename(Entry.card) \o NumberSuffix(copy_no, Entry.qty)
           \o Lower(matched.src.ext)
    ELSE sanitize_filename(strip_back_suffix(strip_pitch_suffix(Entry.card)))
           \o BackMarker \o NumberSuffix(copy_no, Entry.qty)
           \o Lower(backs.result[1].ext)

\* out_path.exists(), tested on every file the copy loops find in place.
PathExists(tree, dir, name) == dir \in DOMAIN tree /\ name \in DOMAIN tree[dir]

\* out_path.exists() always false.
OutPathExists_Never == FALSE

OutPathExists == PathExists(fs, dest_dir, OutName)

\* A file as shutil.copy2 leaves it: a copy of src, whole or cut short.
Copy(src, whole) == [src |-> src, whole |-> whole]

WriteFile(tree, dir, name, content) ==
  [tree EXCEPT ![dir] = DictPut(@, name, content)]

\* "for deck_path in deck_files": on to the next decklist, or main returns.
NextDeck ==
  /\ deck_no' = deck_no + 1
  /\ pc' = IF deck_no >= Len(decks) THEN "done" ELSE "deck"

\* "for qty, card in entries": on to the next entry, or to the end of
\* handle_deck.
NextEntry ==
  /\ entry_no' = entry_no + 1
  /\ pc' = IF entry_no >= Len(entries) THEN "finalize" ELSE "card"

\* "for i in range(1, qty + 1)": on to the next copy, or past the loop.
NextCopy ==
  IF copy_no < Entry.qty
    THEN /\ copy_no' = copy_no + 1
         /\ UNCHANGED << pc, entry_no >>
  ELSE IF pc = "front"
    THEN /\ pc' = "resolve"
         /\ UNCHANGED << copy_no, entry_no >>
  ELSE /\ NextEntry
       /\ UNCHANGED copy_no

\* main from the decklists to the ledger: nothing to do without decklists;
\* else the folders of the output root are recorded and the ledger is empty.
main_snapshot ==
  /\ pc = "ready"
  /\ run > 0
  /\ IF decks = << >>
       THEN /\ pc' = "done"
            /\ UNCHANGED << existing_dirs_start, folder_claims, deck_no >>
       ELSE /\ existing_dirs_start' = IF output_root.exists
                                     THEN DOMAIN fs \ { << >> } ELSE {}
            /\ folder_claims' = << >>
            /\ deck_no' = 1
            /\ pc' = "deck"
  /\ UNCHANGED << fnVars, output_root, libVars,
                  entries, BACK_CACHE, matched, backs, decks, fs, entry_no,
                  copy_no, dest_dir, unique_back_used, log, run, stats, faults,
                  chosen, made_by, tally, prev_clean, phase, ref >>

\* handle_deck up to its card loop: a decklist without entries is skipped
\* with a warning; else the folder is chosen (and made).
handle_deck ==
  /\ pc = "deck"
  /\ entries' = ParseEntries(CurDeck)
  /\ IF ParseEntries(CurDeck) = << >>
       THEN /\ log' = Logged(log, "WARN")
            /\ output_root' = MadeRoot(output_root)
            /\ NextDeck
            /\ UNCHANGED << fs, folder_claims, dest_dir, unique_back_used,
                            entry_no, stats, chosen, made_by, tally >>
       ELSE LET folder_base == compose_folder_base(CurDeck.display, CurDeck.side,
                                                   GameCli, CurDeck.game)
                deck_key == CurDeck.display
                d == choose_dest_dir(fs, folder_base, deck_key,
                                     existing_dirs_start, folder_claims,
                                     output_root)
                base == sanitize_filename(folder_base)
                made == { n \in DOMAIN d.tree : ~Exists(fs, n, output_root) }
            IN  /\ fs' = d.tree
                /\ output_root' = MadeRoot(output_root)
                /\ folder_claims' = d.claims
                /\ dest_dir' = d.target
                /\ log' = IF d.path = "variant" THEN Logged(log, "VARIANT") ELSE log
                /\ unique_back_used' = FALSE
                /\ entry_no' = 1
                /\ pc' = "card"
                /\ stats' = [stats EXCEPT !.created = @ + Cardinality(made)]
                /\ chosen' = [deck |-> deck_no, base |-> base, key |-> deck_key,
                              target |-> d.target, path |-> d.path, made |-> made,
                              claimant |-> IF base \in DOMAIN folder_claims
                                             THEN folder_claims[base] ELSE NoKey,
                              maker |-> IF d.target \in DOMAIN made_by
                                          THEN made_by[d.target] ELSE NoKey,
                              ledger |-> folder_claims,
                              variants |-> chosen.variants \cup
                                 IF chosen.path = "variant"
                                   THEN { chosen.target } ELSE {}]
                /\ made_by' = [n \in DOMAIN made_by \cup made |->
                                 IF n \in made THEN deck_key ELSE made_by[n]]
                /\ tally' = [NoTally EXCEPT !.deck = deck_no]
                /\ UNCHANGED deck_no
  /\ UNCHANGED << fnVars, libVars, BACK_CACHE, matched, backs, decks,
                  existing_dirs_start, copy_no, run, faults, prev_clean, phase,
                  ref >>

\* "continue" after the [MISSING] line as "break".
MissingCard_Break ==
  /\ entry_no' = Len(entries) + 1
  /\ pc' = "finalize"

\* "continue" after the [MISSING] line: on to the next entry.
MissingCard == NextEntry

\* The card loop's lookup: a card without an image is logged and skipped.
match_card ==
  /\ pc = "card"
  /\ LET m == best_match(Entry.card, index)
     IN  IF m.src = NoFile
           THEN /\ log' = Logged(log, "MISSING")
                /\ MissingCard
                /\ UNCHANGED << matched, copy_no >>
           ELSE /\ matched' = [card |-> Entry.card] @@ m
                /\ copy_no' = 1
                /\ pc' = IF Entry.qty >= 1 THEN "front" ELSE "resolve"
                /\ UNCHANGED << log, entry_no >>
  /\ output_root' = LogDir(output_root, log, log')
  /\ UNCHANGED << fnVars, libVars,
                  entries, BACK_CACHE, backs, decks, fs, existing_dirs_start,
                  folder_claims, deck_no, dest_dir, unique_back_used, run,
                  stats, faults, chosen, made_by, tally, prev_clean, phase,
                  ref >>

\* One turn of a copy loop (fronts or backs) that finds the file in place.
skip_existing ==
  /\ pc \in { "front", "back" }
  /\ OutPathExists
  /\ log' = Logged(log, "SKIP-EXISTS")
  /\ NextCopy
  /\ output_root' = LogDir(output_root, log, log')
  /\ UNCHANGED << fnVars, libVars,
                  entries, BACK_CACHE, matched, backs, decks, fs,
                  existing_dirs_start, folder_claims, deck_no, dest_dir,
                  unique_back_used, run, stats, faults, chosen, made_by, tally,
                  prev_clean, phase, ref >>

\* One turn of a copy loop whose shutil.copy2 succeeds.
copy_file ==
  /\ pc \in { "front", "back" }
  /\ ~OutPathExists
  /\ fs' = WriteFile(fs, dest_dir, OutName, Copy(CopySource, TRUE))
  /\ stats' = [stats EXCEPT !.copied = @ + 1]
  /\ tally' = IF pc = "back" THEN [tally EXCEPT !.back_copies = @ + 1] ELSE tally
  /\ NextCopy
  /\ UNCHANGED << fnVars, output_root, libVars, entries, BACK_CACHE, matched, backs, decks,
                  existing_dirs_start, folder_claims, deck_no, dest_dir,
                  unique_back_used, log, run, faults, chosen, made_by,
                  prev_clean, phase, ref >>

\* One turn of a copy loop whose shutil.copy2 raises: the error is logged;
\* the target is missing or holds a part of the file.
copy_fails ==
  /\ pc \in { "front", "back" }
  /\ ~OutPathExists
  /\ faults < MaxFaults
  /\ faults' = faults + 1
  /\ \E part \in BOOLEAN :
       fs' = IF part THEN WriteFile(fs, dest_dir, OutName, Copy(CopySource, FALSE))
                     ELSE fs
  /\ log' = Logged(log, "COPY-ERROR")
  /\ stats' = [stats EXCEPT !.failed = @ + 1]
  /\ NextCopy
  /\ output_root' = LogDir(output_root, log, log')
  /\ UNCHANGED << fnVars, libVars, entries, BACK_CACHE, matched, backs, decks,
                  existing_dirs_start, folder_claims, deck_no, dest_dir,
                  unique_back_used, run, chosen, made_by, tally, prev_clean,
                  phase, ref >>

\* "if backs: unique_back_used = True" with the assignment dropped.
BacksFlag_Dropped(found) == FALSE

\* What "if backs: unique_back_used = True" makes of the flag.
BacksFlag(found) == found

\* The [AMBIGUOUS] line left out.
ReportAmbiguity_Never(l, m) == l

\* "if (not is_exact) and len(candidates) > 1: log([AMBIGUOUS] ...)"
ReportAmbiguity(l, m) ==
  IF ~m.exact /\ Len(m.candidates) > 1 THEN Logged(l, "AMBIGUOUS") ELSE l

\* After the front copies: the ambiguity line, then the backs are looked up.
resolve_backs ==
  /\ pc = "resolve"
  /\ LET r == find_back_images(Entry.card, matched.src, index, catalog,
                               backs_map, BACK_CACHE)
         found == r.result # << >>
     IN  /\ log' = ReportAmbiguity(log, matched)
         /\ BACK_CACHE' = r.cache
         /\ backs' = [front  |-> Entry.card,
                      src    |-> matched.src,
                      hit    |-> CacheKey(Entry.card) \in DOMAIN BACK_CACHE,
                      result |-> r.result]
         /\ unique_back_used' = (unique_back_used \/ BacksFlag(found))
         /\ tally' = [tally EXCEPT !.found = @ \/ found,
                                    !.resolved = DictPut(@, entry_no, r.result)]
         /\ IF found /\ Entry.qty >= 1
              THEN /\ pc' = "back"
                   /\ copy_no' = 1
                   /\ UNCHANGED entry_no
              ELSE /\ NextEntry
                   /\ UNCHANGED copy_no
  /\ output_root' = LogDir(output_root, log, log')
  /\ UNCHANGED << fnVars, libVars,
                  entries, matched, decks, fs, existing_dirs_start,
                  folder_claims, deck_no, dest_dir, run, stats, faults, chosen,
                  made_by, prev_clean, phase, ref >>

\* The end of handle_deck: with the flag set rename_with_suffix is called,
\* which renames the folder unless its name already ends with the marker.
finalize_deck ==
  /\ pc = "finalize"
  /\ LET new == RenameTarget(Beside(fs, dest_dir, output_root),
                             DirName(dest_dir), UniqueBacksSuffix)
         renames == unique_back_used /\ new # DirName(dest_dir)
         is_root == dest_dir = << >>
     IN  /\ fs' = IF ~renames THEN fs
                  ELSE IF is_root THEN << >>
                  ELSE Rename(fs, dest_dir, new)
         /\ output_root' =
               IF renames /\ is_root
                 THEN [exists |-> FALSE,
                       moved  |-> DictPut(output_root.moved, new, fs)]
                 ELSE output_root
         /\ stats' = IF renames THEN [stats EXCEPT !.renamed = @ + 1] ELSE stats
         /\ made_by' = IF ~renames THEN made_by
                       ELSE IF is_root THEN << >>
                       ELSE DictPut(made_by, new, CurDeck.display)
  /\ tally' = IF unique_back_used THEN [tally EXCEPT !.rename_calls = @ + 1]
                                  ELSE tally
  /\ NextDeck
  /\ UNCHANGED << fnVars, libVars, entries, BACK_CACHE, matched, backs, decks,
                  existing_dirs_start, folder_claims, entry_no, copy_no,
                  dest_dir, unique_back_used, log, run, faults, chosen,
                  prev_clean, phase, ref >>

\* The end of handle_deck when Path.rename raises: the error is logged and
\* the folder keeps its name.
rename_fails ==
  /\ pc = "finalize"
  /\ unique_back_used
  /\ RenameTarget(Beside(fs, dest_dir, output_root), DirName(dest_dir),
                  UniqueBacksSuffix) # DirName(dest_dir)
  /\ faults < MaxFaults
  /\ faults' = faults + 1
  /\ log' = Logged(log, "RENAME-ERROR")
  /\ stats' = [stats EXCEPT !.failed = @ + 1]
  /\ tally' = [tally EXCEPT !.rename_calls = @ + 1]
  /\ NextDeck
  /\ output_root' = LogDir(output_root, log, log')
  /\ UNCHANGED << fnVars, libVars,
                  entries, BACK_CACHE, matched, backs, decks, fs,
                  existing_dirs_start, folder_claims, entry_no, copy_no,
                  dest_dir, unique_back_used, run, chosen, made_by, prev_clean,
                  phase, ref >>

\* The file operations this run has made.
Ops == stats.copied + stats.created + stats.renamed

Running ==
  pc \in { "index", "ready", "deck", "card", "front", "resolve", "back", "finalize" }

\* The process is gone: nothing of it is left but the files.
Forgotten ==
  /\ catalog' = << >>
  /\ index' = EmptyIndex
  /\ BACK_CACHE' = << >>
  /\ matched' = NoMatch
  /\ backs' = NoBacks
  /\ existing_dirs_start' = {}
  /\ folder_claims' = << >>
  /\ deck_no' = 0
  /\ entries' = << >>
  /\ entry_no' = 0
  /\ copy_no' = 0
  /\ dest_dir' = << >>
  /\ unique_back_used' = FALSE
  /\ stats' = NoStats
  /\ chosen' = NoChoice
  /\ made_by' = << >>
  /\ tally' = NoTally
  /\ log' = NoLog

\* The process is killed, with a run left to follow (a kill nothing follows
\* leaves the files as they are).  Where a reference run was made, the kill
\* falls between two of the file operations of the uninterrupted run.
terminate ==
  /\ Running
  /\ phase = "main"
  /\ run < MaxRuns
  /\ ref = NoRef \/ (0 < Ops /\ Ops < ref.ops)
  /\ Forgotten
  /\ pc' = "killed"
  /\ UNCHANGED << fnVars, output_root, images, images_root_exists, exts, backs_map,
                  decks, fs, run, faults, prev_clean,
                  phase, ref >>

\* A new process starts.
StartOver ==
  /\ Forgotten
  /\ pc' = "index"

\* main is run again with the same arguments and inputs.
main_again ==
  /\ pc \in { "done", "killed" }
  /\ phase = "main"
  /\ run < MaxRuns
  /\ run' = run + 1
  /\ prev_clean' = (pc = "done" /\ stats.failed = 0)
  /\ StartOver
  /\ UNCHANGED << fnVars, output_root, images, images_root_exists, exts, backs_map,
                  decks, fs, faults, phase, ref >>

\* The reference run has ended: what it left and did is recorded, and the
\* output root is emptied for the run observed.
reference_done ==
  /\ pc = "done"
  /\ phase = "ref"
  /\ ref' = [fs |-> fs, ops |-> Ops]
  /\ phase' = "main"
  /\ fs' = << >>
  /\ output_root' = NoRoot
  /\ StartOver
  /\ UNCHANGED << fnVars, images, images_root_exists, exts, backs_map,
                  decks, run, faults, prev_clean >>

InitRun ==
  /\ images = RunImages
  /\ images_root_exists = TRUE
  /\ exts = << ExtPng, ExtJpg >>
  /\ backs_map = << >>
  /\ catalog = << >>
  /\ index = EmptyIndex
  /\ BACK_CACHE = << >>
  /\ matched = NoMatch
  /\ backs = NoBacks
  /\ pc = "index"
  /\ ProgramStart
  /\ decks \in DeckLists
  /\ log = NoLog
  /\ run = 1
  /\ faults = 0
  /\ prev_clean = FALSE
  /\ NotProbing

\* Runs of main on an output root that is empty at first, with failing file
\* operations and kills.
Init ==
  /\ InitRun
  /\ fs = << >>
  /\ output_root = NoRoot
  /\ phase = "main"
  /\ ref = NoRef

Next ==
  \/ index_library
  \/ main_snapshot
  \/ handle_deck
  \/ match_card
  \/ skip_existing
  \/ copy_file
  \/ copy_fails
  \/ resolve_backs
  \/ finalize_deck
  \/ rename_fails
  \/ terminate
  \/ main_again

Spec == Init /\ [][Next]_vars

\* An uninterrupted reference run on an empty output root, then the same
\* inputs run with a kill and run again; no file operation fails.
InitResume ==
  /\ InitRun
  /\ fs = << >>
  /\ output_root = NoRoot
  /\ phase = "ref"
  /\ ref = NoRef

NextResume ==
  \/ index_library
  \/ main_snapshot
  \/ handle_deck
  \/ match_card
  \/ skip_existing
  \/ copy_file
  \/ resolve_backs
  \/ finalize_deck
  \/ terminate
  \/ main_again
  \/ reference_done

SpecResume == InitResume /\ [][NextResume]_vars

(***************************************************************************)
(* Claims about the folders (checked under Spec)                           *)
(***************************************************************************)

\* choose_dest_dir has been called in this run; chosen describes the call.
Chose == chosen.deck # 0

\* The ledger held the base name for another deck identity at the call.
ClaimedByOther == chosen.claimant # NoKey /\ chosen.claimant # chosen.key

\* C1: for every call of choose_dest_dir in a run, if the sanitized base
\* name is in the snapshot of the output root's folders taken when the run
\* started, the call returns the folder of exactly that name, whatever the
\* deck identity and the ledger, and the call creates no "(variant N)"
\* folder (it creates nothing, or the base folder anew).
C1_FolderReuse ==
  (Chose /\ chosen.base \in existing_dirs_start) =>
     /\ chosen.target = chosen.base
     /\ chosen.made \subseteq { chosen.base }

\* A call for a base name of the snapshot that the ledger holds for another
\* deck identity.
C1_Witness ==
  /\ Chose
  /\ chosen.base \in existing_dirs_start
  /\ ClaimedByOther
  /\ chosen.target = chosen.base

\* C2: if a deck's sanitized base name did not exist in the output root
\* before the run and a deck of another identity was given it earlier in
\* the run, choose_dest_dir returns a variant, never the base name; and a
\* folder name first created during the run for one deck identity is never
\* returned to another deck identity.
C2_SameRunCollision ==
  Chose =>
     /\ (chosen.base \notin existing_dirs_start /\ ClaimedByOther)
           => chosen.target # chosen.base
     /\ chosen.maker \in { NoKey, chosen.key }

\* C3: a second run on unchanged decklists and catalog, starting from the
\* output root a first run left (a run that ended normally, no operation
\* of which failed), copies no file and creates no folder.
C3_IdempotentRerun ==
  (run = 2 /\ prev_clean) => (stats.copied = 0 /\ stats.created = 0)

\* C16: the ledger is empty when a run starts (until choose_dest_dir is
\* first called), and a call of choose_dest_dir removes no key of the ledger
\* and changes the deck identity of no key, also on the reuse path and the
\* fresh-create path: it adds at most the name of the folder it returns.
C16_LedgerMonotone ==
  /\ (run > 0 /\ ~Chose) => folder_claims = << >>
  /\ Chose =>
       /\ \A k \in DOMAIN chosen.ledger :
             k \in DOMAIN folder_claims /\ folder_claims[k] = chosen.ledger[k]
       /\ (DOMAIN folder_claims \ DOMAIN chosen.ledger) \subseteq { chosen.target }

\* A call on the reuse path for a name the ledger holds for another deck
\* identity: the claim is as it was.
C16_Witness ==
  /\ Chose
  /\ chosen.path = "reuse"
  /\ ClaimedByOther
  /\ chosen.base \in DOMAIN chosen.ledger
  /\ folder_claims[chosen.base] = chosen.claimant

(***************************************************************************)
(* Claims about the copies (checked under Spec)                            *)
(***************************************************************************)

\* A step that is one turn of a copy loop, for fronts or for backs.
CopyTurn ==
  /\ pc \in { "front", "back" }
  /\ pc' # "killed"
  /\ << pc, copy_no >>' # << pc, copy_no >>

\* C5: in every turn of a copy loop, for fronts and for backs: when the
\* target path exists, the output root is left as it is (the file is not
\* overwritten) and one [SKIP-EXISTS] line is logged; only when it does not
\* exist is the source copied there, and no [SKIP-EXISTS] line is logged
\* (the copy is made, or it fails, is logged as [COPY-ERROR] and leaves no
\* file or a part of one).
C5_CopyOnlyIfAbsent ==
  [][ CopyTurn =>
        IF PathExists(fs, dest_dir, OutName)
          THEN /\ fs' = fs
               /\ log' = Logged(log, "SKIP-EXISTS")
          ELSE \/ /\ fs' = WriteFile(fs, dest_dir, OutName, Copy(CopySource, TRUE))
                  /\ log' = log
               \/ /\ fs' \in { fs, WriteFile(fs, dest_dir, OutName,
                                             Copy(CopySource, FALSE)) }
                  /\ log' = Logged(log, "COPY-ERROR") ]_vars

\* A later run has skipped copies, and a file an earlier failed copy cut
\* short is still there as it was.
C5_Witness ==
  /\ run = 2
  /\ pc = "done"
  /\ log["SKIP-EXISTS"] > 0
  /\ stats.copied = 0
  /\ \E d \in DOMAIN fs : \E n \in DOMAIN fs[d] : ~fs[d][n].whole

\* handle_deck has returned for the deck tally.deck.
DeckHandled == pc \in { "deck", "done" } /\ tally.deck # 0

\* handle_deck is at work on the cards of a deck.
DeckInHand == pc \in { "card", "front", "resolve", "back", "finalize" }

\* C6 as claimed: per deck, rename_with_suffix is called exactly once, after
\* the last card, if at least one back file was copied for the deck, and is
\* not called if none was copied.
C6_Original ==
  /\ DeckHandled => tally.rename_calls = IF tally.back_copies > 0 THEN 1 ELSE 0
  /\ DeckInHand => tally.rename_calls = 0

\* C6, amended: per deck, rename_with_suffix is called exactly once, after
\* the last card, if find_back_images returned a back image for at least
\* one matched card of the deck (whether or not a back file was copied),
\* and is not called if it returned none for every card.
C6_RenameIffBacksFound ==
  /\ DeckHandled => tally.rename_calls = IF tally.found THEN 1 ELSE 0
  /\ DeckInHand => tally.rename_calls = 0

\* A deck for which backs were found, no back file was copied and the
\* rename was called.
C6_Witness ==
  /\ DeckHandled
  /\ tally.found
  /\ tally.back_copies = 0
  /\ tally.rename_calls = 1

(***************************************************************************)
(* Claims about interrupted runs (checked under SpecResume)                *)
(***************************************************************************)

\* C4: a run killed between two file operations and then run again to
\* completion on unchanged inputs leaves the output root with the same
\* folders and files as one uninterrupted run.
C4_ResumeEqualsUninterrupted ==
  (phase = "main" /\ run = 2 /\ ~prev_clean /\ pc = "done") => fs = ref.fs

(***************************************************************************)
(* One run of main over decklists of several card lines                    *)
(***************************************************************************)

NameEfRed == <<"E", "f", " ", "(", "R", "e", "d", ")">>
NameEfBlue == <<"E", "f", " ", "(", "B", "l", "u", "e", ")">>
NameEfRedBack ==
  <<"E", "f", " ", "(", "R", "e", "d", ")", " ", "(", "B", "a", "c", "k", ")">>
NameA == <<"A">>
NameEfBlueBack ==
  <<"E", "f", " ", "(", "B", "l", "u", "e", ")", " ", "(", "B", "a", "c", "k", ")">>

\* The image library: "Ab" has a back image, "Cd" has none, "Zz" has no
\* image, and the red and the blue "Ef" have a back image each.  "A" is the
\* name of no image and is matched, not exactly, to "Ab" and "Ab (Back)".
CardImages ==
  << File(InRoot, NameAb, ExtPng), File(InRoot, NameAbBack, ExtPng),
     File(InRoot, NameCd, ExtPng),
     File(InRoot, NameEfRed, ExtPng), File(InRoot, NameEfBlue, ExtPng),
     File(InRoot, NameEfRedBack, ExtPng), File(InRoot, NameEfBlueBack, ExtPng) >>

\* The "<count> x <name>" lines the decklists are written with.
CardLines ==
  { Line(1, NameAb), Line(2, NameCd), Line(1, NameZz),
    Line(1, NameEfRed), Line(1, NameEfBlue), Line(1, NameA) }

\* The most card lines of a decklist.
MaxLines == 2

\* The sequences of at most n elements of S.
RECURSIVE SeqsUpTo(_, _)
SeqsUpTo(S, n) ==
  IF n = 0 THEN { << >> }
  ELSE LET shorter == SeqsUpTo(S, n - 1)
       IN  shorter \cup { Append(t, x) : t \in shorter, x \in S }

\* --decks: e.txt, a decklist of any card lines (the same line twice
\* included), and b.txt after it.
CardDecks ==
  { << Deck(<<"e">>, NameGale, lines), DeckB >> :
      lines \in SeqsUpTo(CardLines, MaxLines) }

\* parse_deck_file's read_text raises (the decklist cannot be read): nothing
\* in handle_deck or main catches it, and the process ends with a traceback.
read_fails ==
  /\ pc = "deck"
  /\ faults < MaxFaults
  /\ faults' = faults + 1
  /\ stats' = [stats EXCEPT !.failed = @ + 1]
  /\ pc' = "aborted"
  /\ UNCHANGED << fnVars, output_root, libVars, BACK_CACHE, matched, backs, decks, fs,
                  existing_dirs_start, folder_claims, deck_no, entries, entry_no,
                  copy_no, dest_dir, unique_back_used, log, run, chosen, made_by,
                  tally, prev_clean, phase, ref >>

\* choose_dest_dir's mkdir of a folder that is not there raises: nothing
\* catches it either; the ledger is as it was (mkdir comes before the claim).
mkdir_fails ==
  /\ pc = "deck"
  /\ ParseEntries(CurDeck) # << >>
  /\ LET folder_base == compose_folder_base(CurDeck.display, CurDeck.side,
                                            GameCli, CurDeck.game)
         d == choose_dest_dir(fs, folder_base, CurDeck.display,
                              existing_dirs_start, folder_claims, output_root)
     IN  ~Exists(fs, d.target, output_root)
  /\ faults < MaxFaults
  /\ faults' = faults + 1
  /\ entries' = ParseEntries(CurDeck)
  /\ stats' = [stats EXCEPT !.failed = @ + 1]
  /\ pc' = "aborted"
  /\ UNCHANGED << fnVars, output_root, libVars, BACK_CACHE, matched, backs, decks, fs,
                  existing_dirs_start, folder_claims, deck_no, entry_no,
                  copy_no, dest_dir, unique_back_used, log, run, chosen, made_by,
                  tally, prev_clean, phase, ref >>

\* One run of main on an empty output root; the images root may be missing,
\* and file operations may fail.
InitCards ==
  /\ images_root_exists \in BOOLEAN
  /\ images = IF images_root_exists THEN CardImages ELSE << >>
  /\ exts = << ExtPng, ExtJpg >>
  /\ backs_map = << >>
  /\ catalog = << >>
  /\ index = EmptyIndex
  /\ BACK_CACHE = << >>
  /\ matched = NoMatch
  /\ backs = NoBacks
  /\ pc = "index"
  /\ ProgramStart
  /\ decks \in CardDecks
  /\ fs = << >>
  /\ output_root = NoRoot
  /\ log = NoLog
  /\ run = 1
  /\ faults = 0
  /\ prev_clean = FALSE
  /\ phase = "main"
  /\ ref = NoRef
  /\ NotProbing

NextCards ==
  \/ index_library
  \/ main_snapshot
  \/ handle_deck
  \/ match_card
  \/ skip_existing
  \/ copy_file
  \/ copy_fails
  \/ resolve_backs
  \/ finalize_deck
  \/ rename_fails
  \/ read_fails
  \/ mkdir_fails

SpecCards == InitCards /\ [][NextCards]_vars

(***************************************************************************)
(* Claims about the files of a deck (checked under SpecCards)              *)
(***************************************************************************)

\* The card loop of a deck has ended (the folder has not been renamed yet);
\* the folder was made for the deck, so it was empty, and no operation of
\* the run has failed.
DeckCopied ==
  /\ pc = "finalize"
  /\ chosen.target \in chosen.made
  /\ stats.failed = 0

\* The lines of the decklist best_match finds an image for.
MatchedLines ==
  { k \in DOMAIN entries : best_match(entries[k].card, index).src # NoFile }

\* "<sanitized display name> - i of N<ext>" for copy i of line k.
FrontName(k, i) ==
  sanitize_filename(entries[k].card) \o NumberSuffix(i, entries[k].qty)
    \o Lower(best_match(entries[k].card, index).src.ext)

FrontNames ==
  UNION { { FrontName(k, i) : i \in 1 .. entries[k].qty } : k \in MatchedLines }

\* The sum of the quantities of the lines ks.
RECURSIVE SumQty(_)
SumQty(ks) ==
  IF ks = {} THEN 0
  ELSE LET k == CHOOSE x \in ks : TRUE
       IN  entries[k].qty + SumQty(ks \ { k })

\* C11: after a deck is processed into an initially empty folder with no
\* copy failure, the folder holds one front file per requested copy of
\* every matched line: every name "<sanitized name> - i of N<ext>" is there
\* as a copy of the matched image, and these files are as many as the sum
\* of the quantities of the matched lines, also when a card name is on more
\* than one line.
C11_OneFilePerCopy ==
  DeckCopied =>
     /\ \A k \in MatchedLines : \A i \in 1 .. entries[k].qty :
           /\ PathExists(fs, dest_dir, FrontName(k, i))
           /\ fs[dest_dir][FrontName(k, i)]
                = Copy(best_match(entries[k].card, index).src, TRUE)
     /\ Cardinality(DOMAIN fs[dest_dir] \cap FrontNames) = SumQty(MatchedLines)

\* Every operation that failed has been logged as a line of its own.
FailuresLogged == stats.failed = log["COPY-ERROR"] + log["RENAME-ERROR"]

\* C12: a failure of a single operation while a deck is processed (reading
\* the decklist, creating its folder, a file copy, the folder rename) is
\* converted into a log line and never aborts the run: main does not end
\* with an exception, and when it ends every decklist has been handled.
C12_FailureContainment ==
  /\ pc # "aborted"
  /\ FailuresLogged
  /\ pc = "done" => deck_no = Len(decks) + 1

\* A turn of a copy loop in which shutil.copy2 raises.
CopyFailed == CopyTurn /\ faults' = faults + 1

\* C13: when one file copy raises, one [COPY-ERROR] line is logged, the
\* target file is not produced, and the loop goes on as after any other
\* turn: to the next copy of the card, then to the card's back copies, the
\* later cards and the end of handle_deck.
C13_CopyFailureLocal ==
  [][ CopyFailed =>
        /\ log' = Logged(log, "COPY-ERROR")
        /\ ~PathExists(fs', dest_dir, OutName)
        /\ NextCopy ]_vars

\* "<sanitized pitch-stripped base name> (Back) - i of N<ext>" for copy i of
\* line k, whose back list is resolved.
BackName(k, i) ==
  sanitize_filename(strip_back_suffix(strip_pitch_suffix(entries[k].card)))
    \o BackMarker \o NumberSuffix(i, entries[k].qty)
    \o Lower(tally.resolved[k][1].ext)

\* C19: after a deck is processed into an initially empty folder with no
\* copy failure, for every matched line with quantity N whose resolved back
\* list is not empty and every i in 1..N the folder holds the file
\* "<sanitized pitch-stripped base name> (Back) - i of N<ext>", and it is a
\* copy of the first entry of the back list resolved for that line, also
\* when two lines differ only in pitch and resolve to different backs.
C19_BacksOfOwnFront ==
  DeckCopied =>
     \A k \in DOMAIN tally.resolved :
        tally.resolved[k] # << >> =>
           \A i \in 1 .. entries[k].qty :
              /\ PathExists(fs, dest_dir, BackName(k, i))
              /\ fs[dest_dir][BackName(k, i)] = Copy(tally.resolved[k][1], TRUE)

\* The match of the card line in hand is not exact and has several
\* candidates.
Ambiguous == ~matched.exact /\ Len(matched.candidates) > 1

\* C24: for a matched card line one [AMBIGUOUS] line is logged if and only
\* if the match is not exact and has more than one candidate; in that case
\* the front copies have been made from the first candidate (where no copy
\* failed) and the backs are resolved for that card all the same.
C24_AmbiguityReported ==
  [][ /\ pc # "resolve" => log'["AMBIGUOUS"] = log["AMBIGUOUS"]
      /\ pc = "resolve" =>
            /\ log'["AMBIGUOUS"] = log["AMBIGUOUS"] + IF Ambiguous THEN 1 ELSE 0
            /\ Ambiguous =>
                  /\ matched.src = matched.candidates[1]
                  /\ faults = 0 =>
                        \A i \in 1 .. Entry.qty :
                           /\ PathExists(fs, dest_dir, FrontName(entry_no, i))
                           /\ fs[dest_dir][FrontName(entry_no, i)]
                                = Copy(matched.candidates[1], TRUE)
                  /\ backs'.front = Entry.card
                  /\ backs'.src = matched.candidates[1]
                  /\ backs'.result =
                        find_back_images(Entry.card, matched.candidates[1], index,
                                         catalog, backs_map, BACK_CACHE).result
    ]_vars

\* The line "1x A" has been handled: one [AMBIGUOUS] line, the front copied
\* from "Ab" and its back found.
C24_Witness ==
  /\ pc = "back"
  /\ Entry.card = NameA
  /\ log["AMBIGUOUS"] = 1
  /\ PathExists(fs, dest_dir, FrontName(entry_no, 1))
  /\ fs[dest_dir][FrontName(entry_no, 1)] = Copy(File(InRoot, NameAb, ExtPng), TRUE)
  /\ backs.result = << File(InRoot, NameAbBack, ExtPng) >>

\* The card lines of all decklists.
RECURSIVE CountLines(_)
CountLines(ds) ==
  IF ds = << >> THEN 0 ELSE Len(ParseEntries(Head(ds))) + CountLines(Tail(ds))

\* The images root is missing, and no operation of the run fails.
RootMissing == run > 0 /\ ~images_root_exists /\ faults = 0

\* C17: when the images root does not exist (and nothing else fails),
\* index_library logs one [ERROR] line and returns an empty index and an
\* empty catalog; no card is matched, no file is copied and no folder is
\* renamed; and the run does not abort: when it ends, every decklist has
\* been handled and every card line of every decklist has been reported as
\* [MISSING].
C17_MissingCatalogDegrades ==
  RootMissing =>
     /\ pc # "index" => /\ log["ERROR"] = 1
                        /\ index = EmptyIndex
                        /\ catalog = << >>
     /\ matched = NoMatch
     /\ stats.copied = 0
     /\ stats.renamed = 0
     /\ tally.rename_calls = 0
     /\ \A d \in DOMAIN fs : fs[d] = EmptyDir
     /\ pc # "aborted"
     /\ pc = "done" => /\ deck_no = Len(decks) + 1
                       /\ log["MISSING"] = CountLines(decks)

\* A run without an images root has ended: the decklists had card lines,
\* each of which was reported.
C17_Witness ==
  /\ RootMissing
  /\ pc = "done"
  /\ log["ERROR"] = 1
  /\ log["MISSING"] > 2
  /\ DOMAIN fs = { NameGale, NameStorm }

(***************************************************************************)
(* A decklist with and without its unmatched lines                         *)
(***************************************************************************)

\* best_match finds no image for the card of the line.
Unmatched(line, ix) == best_match(CanonicalName(line.nm), ix).src = NoFile

\* The decklist with the lines of unmatched cards taken out.
WithoutUnmatched(deck, ix) ==
  [deck EXCEPT !.lines = SelectSeq(@, LAMBDA l : ~Unmatched(l, ix))]

\* The run on the decklists as written has ended: what it left and logged is
\* recorded, the unmatched lines are deleted from the decklists, and main is
\* run on them with an empty output root.
drop_unmatched_lines ==
  /\ pc = "done"
  /\ phase = "ref"
  /\ ref' = [fs |-> fs, ops |-> Ops, missing |-> log["MISSING"]]
  /\ decks' = [k \in DOMAIN decks |-> WithoutUnmatched(decks[k], index)]
  /\ phase' = "main"
  /\ fs' = << >>
  /\ output_root' = NoRoot
  /\ StartOver
  /\ UNCHANGED << fnVars, images, images_root_exists, exts, backs_map, run,
                  faults, prev_clean >>

InitUnmatched ==
  /\ images = CardImages
  /\ images_root_exists = TRUE
  /\ exts = << ExtPng, ExtJpg >>
  /\ backs_map = << >>
  /\ catalog = << >>
  /\ index = EmptyIndex
  /\ BACK_CACHE = << >>
  /\ matched = NoMatch
  /\ backs = NoBacks
  /\ pc = "index"
  /\ ProgramStart
  /\ decks \in CardDecks
  /\ fs = << >>
  /\ output_root = NoRoot
  /\ log = NoLog
  /\ run = 1
  /\ faults = 0
  /\ prev_clean = FALSE
  /\ phase = "ref"
  /\ ref = NoRef
  /\ NotProbing

NextUnmatched ==
  \/ index_library
  \/ main_snapshot
  \/ handle_deck
  \/ match_card
  \/ skip_existing
  \/ copy_file
  \/ resolve_backs
  \/ finalize_deck
  \/ drop_unmatched_lines

SpecUnmatched == InitUnmatched /\ [][NextUnmatched]_vars

\* The files of the output root: folder, name and content.
FilesOf(tree) ==
  UNION { { [folder |-> d, name |-> n, content |-> tree[d][n]] :
              n \in DOMAIN tree[d] } : d \in DOMAIN tree }

\* The unmatched lines of the decklists: decklist and line number.
UnmatchedLines ==
  UNION { { << d, k >> :
              k \in { j \in DOMAIN decks[d].lines :
                        Unmatched(decks[d].lines[j], index) } } :
          d \in DOMAIN decks }

\* The output root holds a front or a back file named after the card.
HasFileOf(card) ==
  \E f \in FilesOf(fs) :
     \/ StartsWith(f.name, sanitize_filename(card) \o Dash)
     \/ StartsWith(f.name, sanitize_filename(strip_back_suffix(
                             strip_pitch_suffix(card))) \o BackMarker \o Dash)

\* C14: when main has ended, every line whose card best_match found no pick
\* for has logged one [MISSING] line and has no front and no back file; and
\* the files of the output root (folder, name, content) are those of a run
\* on the decklists without the unmatched lines.
C14_NoMatchLocal ==
  pc = "done" =>
     /\ log["MISSING"] = Cardinality(UnmatchedLines)
     /\ \A u \in UnmatchedLines :
           ~HasFileOf(CanonicalName(decks[u[1]].lines[u[2]].nm))
     /\ phase = "main" => FilesOf(fs) = FilesOf(ref.fs)

\* Both runs have ended: the decklists as written had an unmatched line and
\* matched lines, whose files are there.
C14_Witness ==
  /\ phase = "main"
  /\ pc = "done"
  /\ ref.missing > 0
  /\ \E f \in FilesOf(ref.fs) : f.folder # NameStorm
  /\ FilesOf(fs) = FilesOf(ref.fs)

(***************************************************************************)
(* The indexer alone (SpecIndex) and the order of its buckets              *)
(***************************************************************************)

NameCardLower == <<"c", "a", "r", "d">>

\* The image files the indexer's catalogs are drawn from: one stem in both
\* letter cases, with both extensions, and in two folders.
IndexFiles ==
  { File(InRoot, NameCard, ExtPng), File(InRoot, NameCardLower, ExtPng),
    File(InRoot, NameCard, ExtJpg), File(<<"B">>, NameCard, ExtPng),
    File(<<"a">>, NameCard, ExtPng), File(InRoot, NameAb, ExtPng) }

InitIndex ==
  /\ images \in Catalogs(IndexFiles)
  /\ images_root_exists = TRUE
  /\ exts \in ExtPrefs
  /\ backs_map = << >>
  /\ catalog = << >>
  /\ index = EmptyIndex
  /\ BACK_CACHE = << >>
  /\ matched = NoMatch
  /\ backs = NoBacks
  /\ pc = "index"
  /\ NoRun

NextIndex == index_library

SpecIndex == InitIndex /\ [][NextIndex]_vars

\* a comes before b by (1) the position of the extension in the preference
\* list, unlisted extensions last, then (2) the path string, ascending.
LexicalBefore(a, b) ==
  \/ ExtRank(a, exts) < ExtRank(b, exts)
  \/ /\ ExtRank(a, exts) = ExtRank(b, exts)
     /\ StrLess(PathStr(a), PathStr(b))

\* C15: after index_library returns, in every bucket of the index every
\* entry comes before every later entry by extension preference and then by
\* path string in ascending lexical order, for every pair of paths, those
\* that differ only in letter case included.
C15_BucketOrder ==
  pc = "ready" =>
     \A k \in DOMAIN index.bucket :
        \A i, j \in DOMAIN index.bucket[k] :
           i < j => LexicalBefore(index.bucket[k][i], index.bucket[k][j])

(***************************************************************************)
(* The matcher's tie-break (checked under SpecMatch)                       *)
(***************************************************************************)

\* The pick of best_match for the index of the same files, listed by the
\* file system in the order l.
PickOf(l) == best_match(matched.card, BuildIndex(Scan(l, exts), exts)).src

\* C23: at every step of best_match the pick is the candidate that is first
\* by extension preference and then by path, also where the candidates come
\* from several keys of the index; hence for the same files and the same
\* preference list the pick is the same in whatever order the files were
\* scanned.
C23_DeterministicTieBreak ==
  (Matched /\ matched.src # NoFile) =>
     /\ \A i \in DOMAIN matched.candidates :
           matched.candidates[i] # matched.src =>
              LexicalBefore(matched.src, matched.candidates[i])
     /\ \A l \in Orderings(Range(images)) : PickOf(l) = matched.src

(***************************************************************************)
(* normalize_key alone (SpecNorm)                                          *)
(***************************************************************************)

NameEmbersCall == <<"E", "m", "b", "e", "r", "'", "s", " ", "C", "a", "l", "l">>
NameEmbersCallPlain == <<"e", "m", "b", "e", "r", "s", " ", "c", "a", "l", "l">>

\* The characters the strings are written with: a letter in both cases, a
\* digit, and punctuation and whitespace.
NormChars == { "E", "e", "1", "'", " ", "_" }

\* The longest string.
MaxLen == 3

\* The letter in the other case; any other character as it is.
SwapCase(c) ==
  IF c \in Range(UpperLetters) THEN LowerChar(c)
  ELSE IF c \in Range(LowerLetters)
    THEN UpperLetters[CHOOSE i \in DOMAIN LowerLetters : LowerLetters[i] = c]
  ELSE c

\* Whitespace and punctuation: what is neither a letter nor a digit.
IsPunct(c) ==
  c \notin Range(UpperLetters) \cup Range(LowerLetters) \cup Range(Digits)

\* The strings that differ from x in one place only, by the case of a
\* letter or by one whitespace or punctuation character more or less.
Variants(x) ==
  { [x EXCEPT ![i] = SwapCase(@)] : i \in DOMAIN x }
    \cup { SubSeq(x, 1, i - 1) \o SubSeq(x, i + 1, Len(x)) :
             i \in { j \in DOMAIN x : IsPunct(x[j]) } }
    \cup { SubSeq(x, 1, i) \o << c >> \o SubSeq(x, i + 1, Len(x)) :
             i \in 0 .. Len(x), c \in { d \in NormChars : IsPunct(d) } }

\* The pairs of strings normalize_key is called with: a string and a
\* variant of it, and the two spellings of "Ember's Call".
NormPairs ==
  { [x |-> p[1], y |-> p[2]] :
      p \in UNION { { << x, y >> : y \in Variants(x) } :
                      x \in SeqsUpTo(NormChars, MaxLen) } }
    \cup { [x |-> NameEmbersCall, y |-> NameEmbersCallPlain] }

\* normalize_key is called with both strings, and with its own result.
CallNormalizeKey ==
  /\ pc = "call"
  /\ probed' = [of |-> "normalize_key",
                x  |-> normalize_key(probe.x),
                y  |-> normalize_key(probe.y),
                xx |-> normalize_key(normalize_key(probe.x))]
  /\ pc' = "returned"
  /\ UNCHANGED << probe, libVars, BACK_CACHE, matched, backs, runVars >>

InitNorm ==
  /\ probe \in NormPairs
  /\ probed = NoResult
  /\ images = << >>
  /\ images_root_exists = TRUE
  /\ exts = << ExtPng, ExtJpg >>
  /\ backs_map = << >>
  /\ catalog = << >>
  /\ index = EmptyIndex
  /\ BACK_CACHE = << >>
  /\ matched = NoMatch
  /\ backs = NoBacks
  /\ pc = "call"
  /\ ProgramStart
  /\ decks = << >>
  /\ fs = << >>
  /\ output_root = NoRoot
  /\ log = NoLog
  /\ run = 0
  /\ faults = 0
  /\ prev_clean = FALSE
  /\ phase = "main"
  /\ ref = NoRef

NextNorm == CallNormalizeKey

SpecNorm == InitNorm /\ [][NextNorm]_vars

\* C18: normalize_key(normalize_key(x)) = normalize_key(x), the key holds
\* only characters of [a-z0-9], and a string that differs from x only in
\* letter case, whitespace or punctuation has the key of x ("Ember's Call"
\* and "embers call" have the same key).
C18_NormalizeIdempotent ==
  pc = "returned" =>
     /\ probed.xx = probed.x
     /\ Range(probed.x) \subseteq AlnumLower
     /\ probed.y = probed.x

\* normalize_key has returned the same key for "Ember's Call" and for
\* "embers call".
C18_Witness ==
  /\ pc = "returned"
  /\ probe.x = NameEmbersCall
  /\ probe.y = NameEmbersCallPlain
  /\ probed.x = probed.y
  /\ Len(probed.x) = Len(NameEmbersCallPlain) - 1

(***************************************************************************)
(* One run of main over decks whose folder names collide (SpecVariants)    *)
(***************************************************************************)

NameStormStar == <<"S", "t", "o", "r", "m", "*">>
NameStormVariant ==
  <<"S", "t", "o", "r", "m", " ", "(", "v", "a", "r", "i", "a", "n", "t", " ",
    "2", ")">>

\* "Storm", "Storm?" and "Storm*" are three deck identities of one folder
\* base name; "Storm (variant 2)" is a deck whose own name is the name of a
\* variant folder.  The decks holding "Ab" get the unique-backs marker.
DeckE == Deck(<<"e">>, NameStormVariant, << Line(1, NameCd) >>)
DeckG == Deck(<<"g">>, NameStormQ, << Line(1, NameAb) >>)
DeckH == Deck(<<"h">>, NameStormStar, << Line(1, NameCd) >>)

VariantPool == << DeckA, DeckC, DeckE, DeckG, DeckH >>

\* The most decklists in --decks in these runs.
MaxVariantDecks == 3

\* sorted(decks_root.glob("*.txt")): the chosen decklists in path order.
VariantDeckLists ==
  { SelectSeq(VariantPool, LAMBDA d : d \in S) :
      S \in { T \in SUBSET Range(VariantPool) :
                Cardinality(T) >= 1 /\ Cardinality(T) <= MaxVariantDecks } }

\* One run on an empty output root; no file operation fails.
InitVariants ==
  /\ images = RunImages
  /\ images_root_exists = TRUE
  /\ exts = << ExtPng, ExtJpg >>
  /\ backs_map = << >>
  /\ catalog = << >>
  /\ index = EmptyIndex
  /\ BACK_CACHE = << >>
  /\ matched = NoMatch
  /\ backs = NoBacks
  /\ pc = "index"
  /\ ProgramStart
  /\ decks \in VariantDeckLists
  /\ log = NoLog
  /\ run = 1
  /\ faults = 0
  /\ prev_clean = FALSE
  /\ NotProbing
  /\ fs = << >>
  /\ output_root = NoRoot
  /\ phase = "main"
  /\ ref = NoRef

NextVariants ==
  \/ index_library
  \/ main_snapshot
  \/ handle_deck
  \/ match_card
  \/ skip_existing
  \/ copy_file
  \/ resolve_backs
  \/ finalize_deck

SpecVariants == InitVariants /\ [][NextVariants]_vars

(***************************************************************************)
(* Claims about the variant folders (checked under SpecVariants)           *)
(***************************************************************************)

\* choose_dest_dir has just returned: no card of the deck is handled yet.
JustChose == Chose /\ pc = "card" /\ entry_no = 1

\* The folders of the output root and the ledger keys before the call.
TakenBefore == (DOMAIN fs \ chosen.made) \cup DOMAIN chosen.ledger

\* The [VARIANT] lines of the calls of this run.
VariantCalls ==
  Cardinality(chosen.variants) + IF chosen.path = "variant" THEN 1 ELSE 0

\* C20: when choose_dest_dir takes the collision path, the folder returned
\* is "<base> (variant N)" for the least N >= 2 whose name is neither a
\* folder of the output root nor a ledger key; the folder is created and
\* claimed for the requesting identity and one [VARIANT] line is logged;
\* and within one run no variant name is returned to two different decks.
C20_VariantAllocation ==
  /\ (JustChose /\ chosen.path = "variant") =>
        /\ \E n \in 2 .. (Cardinality(TakenBefore) + 2) :
              /\ chosen.target = VariantName(chosen.base, n)
              /\ chosen.target \notin TakenBefore
              /\ \A k \in 2 .. (n - 1) : VariantName(chosen.base, k) \in TakenBefore
        /\ chosen.made = { chosen.target }
        /\ folder_claims = DictPut(chosen.ledger, chosen.target, chosen.key)
  /\ run > 0 => log["VARIANT"] = VariantCalls
  /\ Chose => chosen.target \notin chosen.variants

(***************************************************************************)
(* Runs of main over decks whose folders get the marker (SpecRename)       *)
(***************************************************************************)

NameStormUnique == NameStorm \o UniqueBacksSuffix

\* A deck whose own name ends with the unique-backs marker.
DeckU == Deck(<<"u">>, NameStormUnique, << Line(1, NameAb) >>)

RenamePool == << DeckA, DeckG, DeckU >>

\* The most decklists in --decks in these runs.
MaxRenameDecks == 2

\* sorted(decks_root.glob("*.txt")): the chosen decklists in path order.
RenameDeckLists ==
  { SelectSeq(RenamePool, LAMBDA d : d \in S) :
      S \in { T \in SUBSET Range(RenamePool) :
                Cardinality(T) >= 1 /\ Cardinality(T) <= MaxRenameDecks } }

\* Runs on an output root that is empty at first; a rename may fail.
InitRename ==
  /\ images = RunImages
  /\ images_root_exists = TRUE
  /\ exts = << ExtPng, ExtJpg >>
  /\ backs_map = << >>
  /\ catalog = << >>
  /\ index = EmptyIndex
  /\ BACK_CACHE = << >>
  /\ matched = NoMatch
  /\ backs = NoBacks
  /\ pc = "index"
  /\ ProgramStart
  /\ decks \in RenameDeckLists
  /\ log = NoLog
  /\ run = 1
  /\ faults = 0
  /\ prev_clean = FALSE
  /\ NotProbing
  /\ fs = << >>
  /\ output_root = NoRoot
  /\ phase = "main"
  /\ ref = NoRef

NextRename ==
  \/ index_library
  \/ main_snapshot
  \/ handle_deck
  \/ match_card
  \/ skip_existing
  \/ copy_file
  \/ resolve_backs
  \/ finalize_deck
  \/ rename_fails
  \/ main_again

SpecRename == InitRename /\ [][NextRename]_vars

(***************************************************************************)
(* Claims about the marker (checked under SpecRename)                      *)
(***************************************************************************)

\* "<name> <marker>", sanitized.
Marked(name) == sanitize_filename(name \o << " " >> \o UniqueBacksSuffix)

\* The folder old of the tree before is the folder new of the tree after,
\* new was no folder before, and every other folder is as it was.
RenamedTo(before, after, old, new) ==
  /\ new \notin DOMAIN before
  /\ DOMAIN after = (DOMAIN before \ { old }) \cup { new }
  /\ after[new] = before[old]
  /\ \A d \in DOMAIN before \ { old } : after[d] = before[d]

\* C21: rename_with_suffix never renames a folder onto a name that exists:
\* a folder whose name ends with the marker is left as it is; otherwise, if
\* the rename fails, one [RENAME-ERROR] line is logged and the folder keeps
\* its name; otherwise the folder is renamed to "<name> <marker>" if that
\* does not exist, and else to "<name> <marker> (variant N)" for the least
\* N >= 2 that does not exist.
C21_RenameNeverOnto ==
  [][ (pc = "finalize" /\ unique_back_used) =>
        IF EndsWith(dest_dir, UniqueBacksSuffix)
          THEN fs' = fs /\ log' = log
        ELSE IF faults' # faults
          THEN fs' = fs /\ log' = Logged(log, "RENAME-ERROR")
        ELSE /\ log' = log
             /\ \E new \in DOMAIN fs' :
                   /\ RenamedTo(fs, fs', dest_dir, new)
                   /\ IF Marked(dest_dir) \notin DOMAIN fs
                        THEN new = Marked(dest_dir)
                        ELSE \E n \in 2 .. (Cardinality(DOMAIN fs) + 2) :
                                /\ new = VariantName(Marked(dest_dir), n)
                                /\ \A k \in 2 .. (n - 1) :
                                      VariantName(Marked(dest_dir), k) \in DOMAIN fs
    ]_vars

\* A second run has renamed the folder it made anew to the variant of the
\* marked name, which the first run had left.
C21_Witness ==
  /\ run = 2
  /\ stats.renamed = 1
  /\ Marked(NameStorm) \in DOMAIN fs
  /\ VariantName(Marked(NameStorm), 2) \in DOMAIN fs
  /\ NameStorm \notin DOMAIN fs

(***************************************************************************)
(* The resolver on stems that hold the letters "back" (SpecKeyword)        *)
(***************************************************************************)

NameBackstab == <<"B", "a", "c", "k", "s", "t", "a", "b">>
NameComebackCd == <<"C", "o", "m", "e", "b", "a", "c", "k", " ", "C", "d">>
NameCdBack == <<"C", "d", " ", "b", "a", "c", "k">>

\* The image files the catalogs are drawn from: "back" is a word of
\* "Cd back" and of "Ab (Back)" and a part of a word of "Comeback Cd" and
\* of "Backstab".
KeywordFiles ==
  { File(InRoot, NameCd, ExtPng), File(InRoot, NameComebackCd, ExtPng),
    File(InRoot, NameCdBack, ExtJpg), File(InRoot, NameBackstab, ExtPng),
    File(InRoot, NameAbBack, ExtPng) }

\* The front card names the resolver is asked for.
KeywordNames == { NameCd, NameBackstab, NameAbBack }

\* handle_deck's lookup of one card, as CallFindBackImages, for these names.
CallFindBackImagesKeyword ==
  /\ pc = "ready"
  /\ \E card \in KeywordNames :
       LET m == best_match(card, index)
           r == find_back_images(card, m.src, index, catalog, backs_map, BACK_CACHE)
       IN  /\ m.src # NoFile
           /\ matched' = [card |-> card] @@ m
           /\ backs' = [front  |-> card,
                        src    |-> m.src,
                        hit    |-> CacheKey(card) \in DOMAIN BACK_CACHE,
                        result |-> r.result]
           /\ BACK_CACHE' = r.cache
  /\ UNCHANGED << fnVars, libVars, pc, runVars >>

InitKeyword ==
  /\ images \in Catalogs(KeywordFiles)
  /\ images_root_exists = TRUE
  /\ exts = << ExtPng, ExtJpg >>
  /\ backs_map = << >>
  /\ catalog = << >>
  /\ index = EmptyIndex
  /\ BACK_CACHE = << >>
  /\ matched = NoMatch
  /\ backs = NoBacks
  /\ pc = "index"
  /\ NoRun

NextKeyword == index_library \/ CallFindBackImagesKeyword

SpecKeyword == InitKeyword /\ [][NextKeyword]_vars

\* The keyword strategy produced the result of the call.
ByKeyword ==
  /\ Resolved /\ ~backs.hit
  /\ S1 = << >> /\ S2 = << >> /\ S3 = << >>

\* C25: a file is returned by the fourth strategy only if "back" is a whole
\* word token of its stem and the stem's tokens hold every token of the
\* front card's base name; a stem that holds the letters "back" inside a
\* longer word only ("Backstab", "Comeback") is not selected.
C25_KeywordWholeWord ==
  ByKeyword =>
     \A i \in DOMAIN backs.result :
        /\ BackWord \in Range(tokenize(backs.result[i].stem))
        /\ TokensSubset(tokenize(FrontBase), tokenize(backs.result[i].stem))

\* C26: no entry of the list find_back_images returns is the matched front
\* file itself, whatever strategy found it, a request that ends in "(Back)"
\* and a front file whose stem holds the letters "back" included.
C26_BackIsNotFront ==
  Resolved => backs.src \notin Range(backs.result)

(***************************************************************************)
(* Decks whose folder name sanitizes to nothing, and decklists without     *)
(* cards                                                                   *)
(***************************************************************************)

NameDots == << ".", "." >>

\* p.txt: "Deck: ??" with 1x Ab (a card with a back image); q.txt: a
\* decklist without a card line; r.txt: "Deck: .." with 1x Cd.
DeckP == Deck(<<"p">>, NameQuestion, << Line(1, NameAb) >>)

DeckQ == Deck(<<"q">>, NameGale, << >>)

DeckR == Deck(<<"r">>, NameDots, << Line(1, NameCd) >>)

RootPool == << DeckB, DeckP, DeckQ, DeckR >>

\* The most decklists in --decks in these runs.
MaxRootDecks == 3

\* sorted(decks_root.glob("*.txt")): the chosen decklists in path order.
RootDeckLists ==
  { SelectSeq(RootPool, LAMBDA d : d \in S) :
      S \in { T \in SUBSET Range(RootPool) :
                Cardinality(T) >= 1 /\ Cardinality(T) <= MaxRootDecks } }

\* parse_deck_file finds a card line in the decklist.
HasCards(deck) == ParseEntries(deck) # << >>

\* The run on the decklists as written has ended: what it left is recorded,
\* the decklists without a card line are taken out of --decks, and main is
\* run on the others with the output root as it was at first.
drop_empty_decklists ==
  /\ pc = "done"
  /\ phase = "ref"
  /\ ref' = [fs |-> fs, ops |-> Ops, root |-> output_root,
             ledger |-> folder_claims, cache |-> BACK_CACHE,
             log |-> [log EXCEPT !["WARN"] = 0]]
  /\ decks' = SelectSeq(decks, HasCards)
  /\ phase' = "main"
  /\ fs' = << >>
  /\ output_root' = NoRoot
  /\ StartOver
  /\ UNCHANGED << fnVars, images, images_root_exists, exts, backs_map, run,
                  faults, prev_clean >>

\* One run of main on the decklists as written, then one without the
\* decklists that have no card line; the output root does not exist at first.
InitRoot ==
  /\ images = RunImages
  /\ images_root_exists = TRUE
  /\ exts = << ExtPng, ExtJpg >>
  /\ backs_map = << >>
  /\ catalog = << >>
  /\ index = EmptyIndex
  /\ BACK_CACHE = << >>
  /\ matched = NoMatch
  /\ backs = NoBacks
  /\ pc = "index"
  /\ ProgramStart
  /\ decks \in RootDeckLists
  /\ log = NoLog
  /\ run = 1
  /\ faults = 0
  /\ prev_clean = FALSE
  /\ NotProbing
  /\ fs = << >>
  /\ output_root = NoRoot
  /\ phase = "ref"
  /\ ref = NoRef

NextRoot ==
  \/ index_library
  \/ main_snapshot
  \/ handle_deck
  \/ match_card
  \/ copy_file
  \/ resolve_backs
  \/ finalize_deck
  \/ drop_empty_decklists

SpecRoot == InitRoot /\ [][NextRoot]_vars

(***************************************************************************)
(* Claims about the destination and about decklists without cards          *)
(* (checked under SpecRoot)                                                *)
(***************************************************************************)

\* C27: the folder choose_dest_dir returns is a child of the output root
\* with a non-empty name, never the output root itself, also for a base
\* name that sanitizes to the empty string; so the unique-backs rename never
\* renames the output root.
C27_DestinationIsChild ==
  /\ Chose => chosen.target # << >>
  /\ output_root.moved = << >>

\* handle_deck is about to read a decklist that has no card line.
EmptyDecklistNext == pc = "deck" /\ ~HasCards(CurDeck)

\* Both runs have ended.
BothRunsDone == pc = "done" /\ phase = "main"

\* C29: handle_deck of a decklist without a parsed card line logs one [WARN]
\* line and changes neither the ledger, the back-art cache nor the folders
\* and files of the output root (choose_dest_dir is not called); and the run
\* leaves what it leaves when that decklist is not in --decks.
C29_NoCardsNoChange ==
  /\ [][EmptyDecklistNext =>
          /\ log' = Logged(log, "WARN")
          /\ fs' = fs
          /\ folder_claims' = folder_claims
          /\ BACK_CACHE' = BACK_CACHE
          /\ chosen' = chosen
          /\ deck_no' = deck_no + 1 \/ pc' = "done"]_vars
  /\ [](BothRunsDone =>
          /\ fs = ref.fs
          /\ output_root.moved = ref.root.moved
          /\ folder_claims = ref.ledger
          /\ BACK_CACHE = ref.cache
          /\ [log EXCEPT !["WARN"] = 0] = ref.log)

=============================================================================
